---- MODULE Spec2Model ----
(***************************************************************************)
(* A model of the chat session of the Twitch chat viewer: the TwitchClient *)
(* class (src/src/config.ts, lines 58-1171).  One TwitchClient instance,   *)
(* its fields, and its asynchronous methods.  Every method runs on one     *)
(* event loop: the code between two awaits is one atomic step, and an      *)
(* await is a place where any other step may run.                          *)
(*                                                                         *)
(* Strings that the code inspects character by character (channel names,   *)
(* login names) are sequences of one-character strings.  The transport     *)
(* (tmi.js) and the HTTP endpoints are the environment: an awaited call    *)
(* completes with any of the outcomes it can have.                         *)
(***************************************************************************)
EXTENDS Integers, Sequences, FiniteSets, TLC

\* ------------------------------------------------------------------ bounds

\* connect() calls in one behaviour; call number k creates transport client k
MaxCalls == 2
\* connect() calls that may be suspended at the same time
MaxConn == 2
\* events delivered to the consumer callback in one behaviour
MaxEvents == 3
\* protocol frames handed to the handlers in one behaviour
MaxFrames == 2
\* texts handed to the transport's say() in one behaviour
MaxSends == 1
\* moderate() calls that reach the network in one behaviour
MaxModerations == 1
\* shield-mode status requests in flight at the same time
MaxPolls == 1
\* entries the display appends to the chat container before the model stops it
MaxShown == 203
\* unread messages the provider counts before the model stops it
MaxUnread == 3

\* updateChannel() calls that may run at once
MaxUpdates == 2

\* ------------------------------------------------------------ pure helpers

\* String.prototype.toLowerCase on one character
LowerChar(c) == IF c = "A" THEN "a" ELSE IF c = "B" THEN "b" ELSE c

ToLower(s) == [k \in 1..Len(s) |-> LowerChar(s[k])]

\* the index of the first "#" of s, 0 when there is none
FirstHash(s) ==
    IF \E k \in 1..Len(s) : s[k] = "#"
    THEN CHOOSE k \in 1..Len(s) : s[k] = "#" /\ \A j \in 1..(k-1) : s[j] # "#"
    ELSE 0

\* channel.replace('#', ''): a string pattern replaces the first occurrence only
ReplaceHash(s) ==
    IF FirstHash(s) = 0 THEN s
    ELSE SubSeq(s, 1, FirstHash(s) - 1) \o SubSeq(s, FirstHash(s) + 1, Len(s))

RECURSIVE TrimLeft(_)
TrimLeft(s) == IF s # << >> /\ Head(s) = " " THEN TrimLeft(Tail(s)) ELSE s

RECURSIVE TrimRight(_)
TrimRight(s) ==
    IF s # << >> /\ s[Len(s)] = " " THEN TrimRight(SubSeq(s, 1, Len(s) - 1)) ELSE s

\* String.prototype.trim
Trim(s) == TrimLeft(TrimRight(s))

\* the guard of line 156: !channel || channel.trim() === ''
IsBlank(s) == s = << >> \/ Trim(s) = << >>

\* line 161: channel.replace('#', '').toLowerCase().trim()
Normalize(s) == Trim(ToLower(ReplaceHash(s)))

\* the UTF-16 code of a character, String.prototype.charCodeAt
CharCode(c) ==
    CASE c = " " -> 32  [] c = "#" -> 35  [] c = "A" -> 65  [] c = "B" -> 66
      [] c = "a" -> 97  [] c = "b" -> 98  [] c = "m" -> 109 [] c = "n" -> 110
      [] c = "o" -> 111 [] c = "s" -> 115 [] c = "u" -> 117 [] c = "y" -> 121
      [] c = "f" -> 102 [] c = "j" -> 106 [] c = "x" -> 120 [] c = "z" -> 122
      [] c = "6" -> 54
      [] OTHER -> 63

\* the least 32-bit integer, -2^31
MinInt32 == -2147483647 - 1

\* a + b wrapped to 32 bits, for 32-bit a and b
Add32(a, b) ==
    IF a >= 0 /\ b > 2147483647 - a
    THEN ((a - 2147483647) - 1) + ((b - 2147483647) - 1)
    ELSE IF a < 0 /\ b < MinInt32 - a
         THEN ((a + 2147483647) + 1) + ((b + 2147483647) + 1)
         ELSE a + b

\* -a wrapped to 32 bits
Neg32(a) == IF a = MinInt32 THEN MinInt32 ELSE 0 - a

\* hash << 5: the low 27 bits move up, the result is read as a signed 32-bit integer
Shl5(h) ==
    LET lo == h % 134217728
    IN  IF lo >= 67108864 THEN (lo - 134217728) * 32 ELSE lo * 32

\* lines 553-557: the hash after the characters of s, starting from hash
RECURSIVE HashFrom(_, _)
HashFrom(hash, s) ==
    IF s = << >> THEN hash
    ELSE LET shifted == Add32(Shl5(hash), Neg32(hash))
             next == Add32(CharCode(Head(s)), shifted)
         IN  HashFrom(next, Tail(s))

\* lines 546-550: the palette
Colors == << "#FF0000", "#0000FF", "#008000", "#B22222", "#FF7F50",
             "#9ACD32", "#FF4500", "#2E8B57", "#DAA520", "#D2691E",
             "#5F9EA0", "#1E90FF", "#FF69B4", "#8A2BE2", "#00FF7F" >>

\* hash % colors.length without Math.abs: the remainder has the sign of hash
ColorIndexSigned(hash) ==
    IF hash < 0 THEN 0 - ((0 - hash) % Len(Colors)) ELSE hash % Len(Colors)

\* line 560: Math.abs(hash) % colors.length (Math.abs(-2^31) is 2^31, a double)
ColorIndex(hash) ==
    IF hash = MinInt32 THEN ((2147483647 % Len(Colors)) + 1) % Len(Colors)
    ELSE (IF hash < 0 THEN 0 - hash ELSE hash) % Len(Colors)

\* lines 545-562; colors[index] is undefined ("", no color) outside the palette
GetDeterministicColor(username) ==
    LET index == ColorIndex(HashFrom(0, username))
    IN  IF index \in 0..(Len(Colors) - 1) THEN Colors[index + 1] ELSE ""

\* String.prototype.startsWith
StartsWith(s, p) == Len(s) >= Len(p) /\ SubSeq(s, 1, Len(p)) = p

\* the index of the first c of s, 0 when there is none
RECURSIVE IndexOf(_, _)
IndexOf(s, c) ==
    IF s = << >> THEN 0
    ELSE IF Head(s) = c THEN 1
    ELSE IF IndexOf(Tail(s), c) = 0 THEN 0 ELSE IndexOf(Tail(s), c) + 1

\* String.prototype.split(c): the pieces of s between the occurrences of c
RECURSIVE Split(_, _)
Split(s, c) ==
    IF IndexOf(s, c) = 0 THEN << s >>
    ELSE << SubSeq(s, 1, IndexOf(s, c) - 1) >>
            \o Split(SubSeq(s, IndexOf(s, c) + 1, Len(s)), c)

Digits == {"0", "1", "2", "5"}

DigitValue(c) == CASE c = "0" -> 0 [] c = "1" -> 1 [] c = "2" -> 2 [] OTHER -> 5

\* the value of the longest prefix of digits of s, continuing from acc; found tells
\* whether a digit was read
RECURSIVE ReadDigits(_, _, _)
ReadDigits(s, acc, found) ==
    IF s # << >> /\ Head(s) \in Digits
    THEN ReadDigits(Tail(s), 10 * acc + DigitValue(Head(s)), TRUE)
    ELSE [nan |-> ~found, val |-> acc]

\* parseInt(s): leading blanks are skipped, a sign is read, then the digits; NaN
\* (nan) when no digit follows
ParseInt(s) ==
    LET t == TrimLeft(s)
        signed == t # << >> /\ Head(t) \in {"-", "+"}
        r == ReadDigits(IF signed THEN Tail(t) ELSE t, 0, FALSE)
    IN  IF r.nan THEN r
        ELSE [nan |-> FALSE, val |-> IF signed /\ Head(t) = "-" THEN 0 - r.val ELSE r.val]

\* parseInt(undefined)
NaN == [nan |-> TRUE, val |-> 0]

\* Map.prototype.set(name, url)
MapSet(m, name, url) == {e \in m : e[1] # name} \cup {<<name, url>>}

\* map.set(name, url) for each <<name, url>> of the sequence es, in order
RECURSIVE SetAll(_, _)
SetAll(m, es) ==
    IF es = << >> THEN m ELSE SetAll(MapSet(m, Head(es)[1], Head(es)[2]), Tail(es))

\* a merge in which the entry that is already there wins
ForEachSetKeep(into, from) == into \cup {f \in from : \A e \in into : e[1] # f[1]}

\* from.forEach((url, name) => into.set(name, url))
ForEachSet(into, from) == {e \in into : \A f \in from : f[1] # e[1]} \cup from

HttpsColon == <<"h", "t", "t", "p", "s", ":">>

\* emoteService.ts lines 187-201, getFFZEmoteUrl: url is the first of urls['1'],
\* urls['2'], urls['4'] that is set, << >> when none is; the result << >> is null
GetFFZEmoteUrl(url) ==
    IF url = << >> THEN << >>
    ELSE IF StartsWith(url, <<"/", "/">>) THEN HttpsColon \o url
    ELSE IF StartsWith(url, <<"h", "t", "t", "p">>) THEN url
    ELSE HttpsColon \o <<"/", "/">> \o url

\* emoteService.ts lines 217, 229 and 236: the url of a BTTV emote
BTTVEmoteUrl(id) ==
    <<"h", "t", "t", "p", "s", ":", "/", "/", "c", "d", "n", ".", "b", "e", "t", "t", "e", "r", "t", "t", "v", ".", "n", "e", "t", "/", "e", "m", "o", "t", "e", "/">>
      \o id \o <<"/", "1", "x">>

\* emoteService.ts lines 271 and 284: the url of a 7TV emote
SevenTVEmoteUrl(hostUrl) == HttpsColon \o hostUrl \o <<"/", "1", "x", ".", "w", "e", "b", "p">>

\* JavaScript values that may be undefined, a boolean or a number: value is the number,
\* 1 and 0 for true and false
JsUndefined == [type |-> "undefined", value |-> 0]

JsBool(b) == [type |-> "boolean", value |-> IF b THEN 1 ELSE 0]

JsNumber(n) == [type |-> "number", value |-> n]

\* ToBoolean(v): undefined, false and 0 are falsy
Truthy(v) == v.type # "undefined" /\ v.value # 0

\* ------------------------------------------------------------ environment

\* the absent token (undefined)
NoToken == ""

\* bearer tokens the caller may pass
Tokens == {"tokA"}

\* bearer tokens of two accounts: the channel's broadcaster and a moderator
AllTokens == {"tokA", "tokM"}

\* the account the user-lookup endpoint returns for a token
AccountLogin(tok) == IF tok = "tokA" THEN <<"a">> ELSE <<"m">>

AccountId(tok) == IF tok = "tokA" THEN 1 ELSE 2

\* channel names a caller may pass to connect()
RawChannels == { << >>, <<"#">>, <<"#", "A">> }

\* the catalogs fetchAllEmotes(channel, id) may resolve to: every provider
\* failure is swallowed, so it resolves (never rejects) with what was fetched
EmoteResults(channel, chanId) ==
    IF chanId = 0
    THEN { {}, {<<"Kappa", channel>>} }
    ELSE { {}, {<<"Kappa", channel>>, <<"catJAM", channel>>} }

\* the numeric id of a channel login as /helix/users?login= returns it
ChannelIdOf(channel) == IF channel = <<"a">> THEN 1 ELSE IF channel = <<"m">> THEN 2 ELSE 3

\* --------------------------------------------------------------- the state

VARIABLES
    client,                    \* this.client: 0 is null, k is transport client k
    currentChannel,            \* this.currentChannel
    currentUsername,           \* this.currentUsername, << >> is undefined
    currentUserId,             \* this.currentUserId, 0 is undefined
    currentUserColor,          \* this.currentUserColor, "" is undefined
    thirdPartyEmotes,          \* this.thirdPartyEmotes, a set of <<name, url>>
    shieldModePollingInterval, \* this.shieldModePollingInterval: 0 undefined, else a timer id
    authToken,                 \* this.authToken, "" is undefined
    transport,                 \* every tmi.Client ever created: its connection status
    identity,                  \* the login each tmi.Client was created with, << >> is none
    emoteFetch,                \* the fetchAllEmotes() call: where it is suspended, its maps
    timers,                    \* the interval timers that are set and not cleared
    polls,                     \* shield-mode status requests in flight
    conn,                      \* the connect() calls: where each is suspended, its locals
    disc,                      \* the disconnect() call made by the panel: where it is
    calls,                     \* connect() calls made so far
    delivered,                 \* the events passed to messageCallback, in order
    discDone,                  \* a disconnect() called by the panel completed while no
                               \* connect() was running, and no connect() was called since
    arrived,                   \* the protocol frames the transports handed to the handlers
    send,                      \* the sendMessage() call: where it is suspended, its result
    said,                      \* the texts handed to the transport's say()
    mod,                       \* the moderate() call: where it is suspended, its locals
    lookups,                   \* user-lookup requests issued by moderate()
    rest,                      \* moderation REST requests issued, in order
    mode,                      \* the toggleChatMode() call: where it is suspended, its locals
    modeRequests,              \* shield-mode and chat-settings requests issued, in order
    roomState,                 \* the display's roomState object
    shown,                     \* how many of the delivered events the display has processed
    chatContainer,             \* the display's chat container: its entries, oldest first
    unreadCount,               \* the provider's unreadCount
    isViewVisible,             \* the provider's isViewVisible
    isViewActive,              \* the provider's isViewActive
    secret,                    \* the session in the secret store: its token, "" is none
    settingsChannel,           \* the setting twitchChat.channel
    connectionStatus,          \* the last connectionStatus message posted to the display
    update,                    \* the updateChannel() calls: where each is suspended
    resolved                   \* the webview view was resolved and is not disposed

vars == << client, currentChannel, currentUsername, currentUserId, currentUserColor,
           thirdPartyEmotes, shieldModePollingInterval, authToken, transport, identity,
           emoteFetch, timers, polls, conn, disc, calls, delivered, discDone, arrived, send, said, mod,
           lookups, rest, mode, modeRequests, roomState, shown, chatContainer,
           unreadCount, isViewVisible, isViewActive, secret, settingsChannel,
           connectionStatus, update, resolved >>

\* the provider's sessions and settings, and its updateChannel() calls
provider == << secret, settingsChannel, connectionStatus, update, resolved >>

\* the toggleChatMode() call and its requests
toggling == << mode, modeRequests >>

\* the state of the display (the webview)
display == << roomState, shown, chatContainer, unreadCount, isViewVisible,
             isViewActive >>

\* the provider's view of the panel (part_005 lines 679-681)
view == << unreadCount, isViewVisible, isViewActive >>

session == << client, currentChannel, currentUsername, currentUserId, currentUserColor,
              thirdPartyEmotes, shieldModePollingInterval, authToken >>

\* what the lifecycle steps leave alone: the frame log and the outbound calls
outbound == << arrived, send, said, mod, lookups, rest >>

\* what the outbound calls leave alone
lifecycle == << transport, identity, emoteFetch, timers, polls, conn, disc, calls,
               discDone >>

ConnIds == 1..MaxConn

UpdateIds == 1..MaxUpdates

\* an updateChannel() call that is not running
IdleUpdate == [pc |-> "idle", settingsChannel |-> << >>, session |-> NoToken,
               channel |-> << >>, slot |-> 0, origin |-> "none"]

\* no connectionStatus message was posted
NoStatus == [status |-> "none", channel |-> << >>]

TransportIds == 1..MaxCalls

\* a connect() call that is not running
IdleConn == [pc |-> "idle", id |-> 0, channel |-> << >>, token |-> NoToken,
             chanId |-> 0, result |-> "none"]

\* no sendMessage() call is running
IdleSend == [pc |-> "idle", text |-> "", at |-> 0, result |-> "none"]

\* no moderate() call is running
IdleMod == [pc |-> "idle", action |-> << >>, username |-> << >>, messageId |-> "",
            channel |-> << >>, broadcasterId |-> 0, targetId |-> 0, result |-> "none"]

\* the tiers fetchAllEmotes() fetches, in the order it merges them
Tiers == <<"ffzGlobal", "ffzChannel", "bttvGlobal", "bttvChannel", "bttvShared",
           "stvGlobal", "stvChannel">>

\* no fetchAllEmotes() call is running.  emotes is the map of the provider being
\* fetched, allEmotes the merged map; a map is a set of <<name, url>> with one url for
\* a name.  got is not in the code: what each tier contributed.
IdleFetch ==
    [pc |-> "idle", channelUserId |-> 0, emotes |-> {}, allEmotes |-> {},
     got |-> [k \in 1..Len(Tiers) |-> {}]]

\* no toggleChatMode() call is running
IdleMode == [pc |-> "idle", mode |-> "", enabled |-> JsUndefined, value |-> JsUndefined,
             channel |-> << >>, result |-> "none"]

\* the display's roomState when the webview is loaded (part_005 lines 1376-1382)
InitialRoomState ==
    [shieldMode |-> JsBool(FALSE), subsOnly |-> JsBool(FALSE), emotesOnly |-> JsBool(FALSE),
     followersOnly |-> JsBool(FALSE), slowMode |-> JsNumber(0)]

\* lines 62-79: the fields after construction, and the display as loaded
Init ==
    /\ client = 0
    /\ currentChannel = << >>
    /\ currentUsername = << >>
    /\ currentUserId = 0
    /\ currentUserColor = ""
    /\ thirdPartyEmotes = {}
    /\ shieldModePollingInterval = 0
    /\ authToken = NoToken
    /\ transport = [t \in TransportIds |-> "none"]
    /\ identity = [t \in TransportIds |-> << >>]
    /\ emoteFetch = IdleFetch
    /\ timers = {}
    /\ polls = 0
    /\ conn = [i \in ConnIds |-> IdleConn]
    /\ disc = "idle"
    /\ calls = 0
    /\ delivered = << >>
    /\ discDone = FALSE
    /\ arrived = << >>
    /\ send = IdleSend
    /\ said = << >>
    /\ mod = IdleMod
    /\ lookups = 0
    /\ rest = << >>
    /\ mode = IdleMode
    /\ modeRequests = << >>
    /\ roomState = InitialRoomState
    /\ shown = 0
    /\ chatContainer = << >>
    /\ unreadCount = 0
    /\ isViewVisible = FALSE
    /\ isViewActive = FALSE
    /\ secret = NoToken
    /\ settingsChannel = << >>
    /\ connectionStatus = NoStatus
    /\ update = [u \in UpdateIds |-> IdleUpdate]
    /\ resolved = FALSE

\* a transport client whose connect() was called and whose disconnect() was not
Live(t) == transport[t] \in {"connecting", "open"}

\* tmi.Client.disconnect() called on transport t: it stops, whatever the promise says
Teardown(tr, t) == [tr EXCEPT ![t] = IF tr[t] \in {"connecting", "open"} THEN "closed" ELSE @]


\* ------------------------------------------------------------------ events

\* a TwitchMessage as passed to messageCallback.  kind, via and src are not fields
\* of the code's object: kind names its messageType and which optional payload it
\* carries, via names the code path that made the call, src is the arrival number
\* of the frame a handler made it from (0 when no frame did).
Event(kind, username, color, badges, emotes, data, via, src) ==
    [kind |-> kind, username |-> username, color |-> color, badges |-> badges,
     thirdPartyEmotes |-> emotes, data |-> data, via |-> via, src |-> src]

\* an object literal {} as the thirdPartyEmotes of an event.  ref is not in the code:
\* 0 says that the object is the event's own, 1 that it is this.thirdPartyEmotes itself
EmptyObject == [ref |-> 0, entries |-> {}]

\* the session's Map itself as the thirdPartyEmotes of an event
MapItself(map) == [ref |-> 1, entries |-> map]

\* Object.fromEntries(this.thirdPartyEmotes) (lines 211, 234, 257, 279, 302, 619): a new
\* object with the entries the Map has at the call
ObjectFromEntries(map) == [ref |-> 0, entries |-> map]

\* the entries a reader finds in the thirdPartyEmotes of event e while the session's
\* Map holds current
EntriesOf(e, current) ==
    IF e.thirdPartyEmotes.ref = 0 THEN e.thirdPartyEmotes.entries ELSE current

\* this.messageCallback(e) for each e of events, in order: the consumer's log after
\* the calls (lines 219, 240, 264, 287, 309, 326, 358, 383, 400, 624, 1140)
\* a delivery that puts the new events before the ones already delivered
DeliverFirst(log, events) == events \o log

Deliver(log, events) == log \o events

\* tags.color || this.getDeterministicColor(username) (lines 208, 231, 254, 276, 299)
\* a color resolution without the fallback to the username's color
ResolveColorRaw(color, username) == color

ResolveColor(color, username) ==
    IF color # "" THEN color ELSE GetDeterministicColor(username)

\* a roomStateUpdate object: a key the object does not have is undefined
RoomStateUpdate(shieldMode, subsOnly, emotesOnly, followersOnly, slowMode) ==
    [shieldMode |-> shieldMode, subsOnly |-> subsOnly, emotesOnly |-> emotesOnly,
     followersOnly |-> followersOnly, slowMode |-> slowMode]

\* { shieldMode: isActive } (lines 925-927, 1150-1152)
ShieldUpdate(isActive) ==
    RoomStateUpdate(isActive, JsUndefined, JsUndefined, JsUndefined, JsUndefined)

\* a poll event that carries the opposite of the fetched value
PollEventInverted(isActive) ==
    Event("roomstate", << >>, "", {}, EmptyObject, ShieldUpdate(JsBool(~isActive)), "poll",
          0)

\* lines 1140-1153: the event of one successful shield-mode poll
PollEvent(isActive) ==
    Event("roomstate", << >>, "", {}, EmptyObject, ShieldUpdate(JsBool(isActive)), "poll", 0)

\* ------------------------------------------------------------------ frames

\* a protocol frame as tmi.js hands it to the handlers: cmd is the event or raw
\* command, username and color the tags (<< >> and "" when absent), self the self
\* flag of a chat message, tagged whether the frame carries what its raw handler
\* looks for (ROOMSTATE: tags; CLEARMSG: target-msg-id; CLEARCHAT: a user parameter;
\* GLOBALUSERSTATE: tags), followers the text of the followers-only tag of a
\* ROOMSTATE (<< >> when absent)
Frame(cmd, username, color, self, tagged) ==
    [cmd |-> cmd, username |-> username, color |-> color, self |-> self,
     tagged |-> tagged, followers |-> << >>, slow |-> << >>, on |-> 0]

\* frame f with followers-only tag v
WithFollowers(f, v) == [f EXCEPT !.followers = v]

\* frame f with slow tag v
WithSlow(f, v) == [f EXCEPT !.slow = v]

\* the followers-only tags of a ROOMSTATE: -1 is off, 0 is any follower, N is N minutes
FollowersTags == { <<"-", "1">>, <<"0">>, <<"1", "0">> }

\* the ROOMSTATE frames that carry a followers-only tag, and the one that carries none
RoomFrames ==
    { WithFollowers(Frame("ROOMSTATE", << >>, "", FALSE, TRUE), v) : v \in FollowersTags }
    \cup { Frame("ROOMSTATE", << >>, "", FALSE, TRUE) }

\* a roomStateUpdate whose followers-only value is tested for truth, not against -1
RoomStateOfTruthy(f) ==
    LET followersOnlyValue == IF f.followers # << >> THEN ParseInt(f.followers).val
                              ELSE 0 - 1
    IN  RoomStateUpdate(JsUndefined, JsBool(FALSE), JsBool(FALSE),
                        IF followersOnlyValue > 0 THEN JsNumber(followersOnlyValue)
                        ELSE JsBool(FALSE),
                        IF f.slow # << >> THEN JsNumber(ParseInt(f.slow).val)
                        ELSE JsNumber(0))

\* lines 317-323: the roomStateUpdate the ROOMSTATE handler builds from the tags of f
RoomStateOf(f) ==
    LET followersOnlyValue == IF f.followers # << >> THEN ParseInt(f.followers).val
                              ELSE 0 - 1
    IN  RoomStateUpdate(JsUndefined, JsBool(FALSE), JsBool(FALSE),
                        IF followersOnlyValue # 0 - 1 THEN JsNumber(followersOnlyValue)
                        ELSE JsBool(FALSE),
                        IF f.slow # << >> THEN JsNumber(ParseInt(f.slow).val)
                        ELSE JsNumber(0))

\* ROOMSTATE frames that carry one mode tag only: followers-only of 10 minutes, or a
\* slow mode of 10 seconds
PartialFrames ==
    { WithFollowers(Frame("ROOMSTATE", << >>, "", FALSE, TRUE), <<"1", "0">>),
      WithSlow(Frame("ROOMSTATE", << >>, "", FALSE, TRUE), <<"1", "0">>) }

\* the frames the transports deliver
Frames ==
    { Frame("message", u, c, FALSE, TRUE) : u \in {<< >>, <<"b">>}, c \in {"", "#00FF00"} }
    \cup { Frame("message", <<"a">>, "", TRUE, TRUE) }
    \cup { Frame(k, <<"b">>, "", FALSE, TRUE) :
              k \in {"subscription", "resub", "subgift", "submysterygift"} }
    \cup { Frame("subscription", <<"b">>, "#00FF00", FALSE, TRUE) }
    \cup { Frame(k, << >>, "", FALSE, t) : k \in {"ROOMSTATE", "CLEARMSG"}, t \in BOOLEAN }
    \cup { Frame("CLEARCHAT", <<"b">>, "", FALSE, TRUE),
           Frame("CLEARCHAT", << >>, "", FALSE, FALSE) }
    \cup { Frame("GLOBALUSERSTATE", << >>, "#00FF00", FALSE, TRUE),
           Frame("GLOBALUSERSTATE", << >>, "", FALSE, TRUE),
           Frame("GLOBALUSERSTATE", << >>, "", FALSE, FALSE) }

\* the login a chat message without a username tag is given (line 203)
Anonymous == <<"a", "n", "o", "n", "y", "m", "o", "u", "s">>

\* handlers that also forward the chat messages that carry the self flag
HandlerEventsWithEcho(f, n) ==
    CASE f.cmd = "message" ->
           IF FALSE THEN << >>
           ELSE LET username == IF f.username # << >> THEN f.username ELSE Anonymous
                IN  << Event("chat", username, ResolveColor(f.color, username),
                             {}, ObjectFromEntries(thirdPartyEmotes), "", "frame", n) >>
      [] f.cmd \in {"subscription", "resub", "subgift", "submysterygift"} ->
           << Event(f.cmd, f.username, ResolveColor(f.color, f.username),
                    {}, ObjectFromEntries(thirdPartyEmotes), "", "frame", n) >>
      [] f.cmd = "ROOMSTATE" ->
           IF f.tagged
           THEN << Event("roomstate", << >>, "", {}, EmptyObject, RoomStateOf(f), "frame", n) >>
           ELSE << >>
      [] f.cmd = "CLEARMSG" ->
           IF f.tagged
           THEN << Event("deletedMessage", << >>, "", {}, EmptyObject, "", "frame", n) >>
           ELSE << >>
      [] f.cmd = "CLEARCHAT" ->
           IF f.tagged
           THEN << Event("deletedUser", f.username, "", {}, EmptyObject, "", "frame", n) >>
           ELSE << Event("clearAll", << >>, "", {}, EmptyObject, "", "frame", n) >>
      [] OTHER -> << >>

\* lines 198-415: the events the handlers pass to messageCallback for frame f, the
\* n-th frame to arrive
HandlerEvents(f, n) ==
    CASE f.cmd = "message" ->
           IF f.self THEN << >>
           ELSE LET username == IF f.username # << >> THEN f.username ELSE Anonymous
                IN  << Event("chat", username, ResolveColor(f.color, username),
                             {}, ObjectFromEntries(thirdPartyEmotes), "", "frame", n) >>
      [] f.cmd \in {"subscription", "resub", "subgift", "submysterygift"} ->
           << Event(f.cmd, f.username, ResolveColor(f.color, f.username),
                    {}, ObjectFromEntries(thirdPartyEmotes), "", "frame", n) >>
      [] f.cmd = "ROOMSTATE" ->
           IF f.tagged
           THEN << Event("roomstate", << >>, "", {}, EmptyObject, RoomStateOf(f), "frame", n) >>
           ELSE << >>
      [] f.cmd = "CLEARMSG" ->
           IF f.tagged
           THEN << Event("deletedMessage", << >>, "", {}, EmptyObject, "", "frame", n) >>
           ELSE << >>
      [] f.cmd = "CLEARCHAT" ->
           IF f.tagged
           THEN << Event("deletedUser", f.username, "", {}, EmptyObject, "", "frame", n) >>
           ELSE << Event("clearAll", << >>, "", {}, EmptyObject, "", "frame", n) >>
      [] OTHER -> << >>

\* lines 341-351: this.currentUserColor after frame f
ColorAfterFrame(f) ==
    IF f.cmd # "GLOBALUSERSTATE" THEN currentUserColor
    ELSE IF f.tagged /\ f.color # "" THEN f.color
    ELSE IF currentUserColor = "" THEN "#9147ff"
    ELSE currentUserColor

\* lines 198-415: transport t hands frame f to the handlers connect() registered on it
OnFrame(t, f) ==
    /\ transport[t] = "open"
    /\ Len(arrived) < MaxFrames
    /\ Len(delivered) + Len(HandlerEvents(f, Len(arrived) + 1)) <= MaxEvents
    /\ arrived' = Append(arrived, [f EXCEPT !.on = t])
    /\ delivered' = Deliver(delivered, HandlerEvents(f, Len(arrived) + 1))
    /\ currentUserColor' = ColorAfterFrame(f)
    /\ UNCHANGED << client, currentChannel, currentUsername, currentUserId,
                    thirdPartyEmotes, shieldModePollingInterval, authToken >>
    /\ UNCHANGED << lifecycle, send, said, mod, lookups, rest,
                    toggling, display >>
    /\ UNCHANGED provider

\* ------------------------------------------------------------- the display

\* part_005 lines 1841-1847, handleRoomState(data): the display's roomState after it
HandleRoomState(data) ==
    [key \in DOMAIN roomState |->
        IF data[key].type # "undefined" THEN data[key] ELSE roomState[key]]

\* part_005 line 1854: the text of the followers-only status
FollowersStatus == IF roomState.followersOnly # JsBool(FALSE) THEN "ON" ELSE "OFF"

\* part_005 line 1476: what the followers-only menu item sends as enabled
FollowersMenuEnabled == ~(roomState.followersOnly # JsBool(FALSE))

\* the number of messages the chat container keeps (part_005 line 2080)
MaxHistory == 200

\* the entry appended to the container: entries are numbered as they are appended
NextEntry == IF chatContainer = << >> THEN 1 ELSE chatContainer[Len(chatContainer)] + 1

\* part_005 lines 2080-2082: the container with its oldest entries removed while it
\* holds more than MaxHistory
RECURSIVE TrimHistory(_)
TrimHistory(c) == IF Len(c) > MaxHistory THEN TrimHistory(Tail(c)) ELSE c

\* part_005 lines 1901-2090, addChatMessage(msg).  The removals that a deletion event
\* schedules run in a timer 500 ms later and only take entries away; they are left out.
AddChatMessage(msg) ==
    IF msg.kind = "roomstate"
    THEN roomState' = HandleRoomState(msg.data) /\ UNCHANGED chatContainer
    ELSE IF msg.kind \in {"deletedMessage", "deletedUser"}
    THEN UNCHANGED << roomState, chatContainer >>
    ELSE IF msg.kind = "clearAll"
    THEN chatContainer' = << >> /\ UNCHANGED roomState
    ELSE IF msg.kind = "system"
    THEN chatContainer' = Append(chatContainer, NextEntry) /\ UNCHANGED roomState
    ELSE /\ chatContainer' = TrimHistory(Append(chatContainer, NextEntry))
         /\ UNCHANGED roomState

\* part_005 lines 859-872 and 1742-1750: the display receives the next event the
\* provider's handleMessage posted to it
ShowEvent ==
    /\ shown < Len(delivered)
    /\ shown' = shown + 1
    /\ AddChatMessage(delivered[shown + 1])
    /\ UNCHANGED << session, lifecycle, delivered, outbound, toggling, view >>
    /\ UNCHANGED provider

\* part_005 lines 2348-2362, sendSystemMessage(message): the message the provider
\* posts to the display
SystemMessage == Event("system", << >>, "#808080", {}, EmptyObject, "", "provider", 0)

\* messages the display may receive: a chat message, a subscription, a system notice,
\* the clearing of the chat
DisplayMessages ==
    { Event("chat", <<"a">>, "#FF0000", {}, EmptyObject, "", "handler", 0),
      Event("subscription", <<"a">>, "#FF0000", {}, EmptyObject, "", "handler", 0),
      SystemMessage,
      Event("clearAll", << >>, "", {}, EmptyObject, "", "handler", 0) }

\* part_005 lines 1742-1750: the display receives a 'chatMessage' post
ShowMessage(msg) ==
    /\ NextEntry <= MaxShown
    /\ AddChatMessage(msg)
    /\ UNCHANGED << session, lifecycle, delivered, outbound, toggling, shown, view >>
    /\ UNCHANGED provider

\* the messageType of an event (config.ts lines 215, 236, 259, 281, 304, 335, 368, 392,
\* 409, 926, 1149): room-state updates, deletions and clearings are sent with messageType 'chat'
MessageType(e) ==
    IF e.kind \in {"bits", "subscription", "resub", "subgift", "system"} THEN e.kind
    ELSE IF e.kind = "submysterygift" THEN "subgift"
    ELSE "chat"

\* events the client may pass to the provider's handleMessage
ProviderMessages ==
    { Event("chat", <<"a">>, "#FF0000", {}, EmptyObject, "", "handler", 0),
      Event("bits", <<"a">>, "#FF0000", {}, EmptyObject, "", "handler", 0),
      Event("subscription", <<"a">>, "#FF0000", {}, EmptyObject, "", "handler", 0),
      Event("deletedMessage", << >>, "", {}, EmptyObject, "", "handler", 0),
      Event("clearAll", << >>, "", {}, EmptyObject, "", "handler", 0),
      PollEvent(TRUE) }

\* part_005 lines 859-872, handleMessage(message), with the 'chatMessage' post it
\* makes handed to the display (lines 1742-1750)
HandleMessage(message) ==
    /\ unreadCount < MaxUnread
    /\ NextEntry <= MaxShown
    /\ LET isChatMessage == MessageType(message) = "chat"
           shouldIncrement == isChatMessage /\ (~isViewVisible \/ ~isViewActive)
       IN  unreadCount' = IF shouldIncrement THEN unreadCount + 1 ELSE unreadCount
    /\ AddChatMessage(message)
    /\ UNCHANGED << session, lifecycle, delivered, outbound, toggling, shown,
                    isViewVisible, isViewActive >>
    /\ UNCHANGED provider

\* part_005 lines 720-744: the panel became visible or hidden.  updateActiveState()
\* only posts 'checkFocus' to the display when the panel is visible.
OnDidChangeVisibility(visible) ==
    /\ resolved
    /\ isViewVisible' = visible
    /\ isViewActive' = visible
    /\ unreadCount' = IF visible THEN 0 ELSE unreadCount
    /\ UNCHANGED << session, lifecycle, delivered, outbound, toggling, roomState, shown,
                    chatContainer >>
    /\ UNCHANGED provider

\* part_005 lines 747-751: the display reported that it has the focus
WebviewFocused ==
    /\ resolved
    /\ isViewActive' = TRUE
    /\ unreadCount' = 0
    /\ UNCHANGED << session, lifecycle, delivered, outbound, toggling, roomState, shown,
                    chatContainer, isViewVisible >>
    /\ UNCHANGED provider

\* ------------------------------------------------------- shield-mode polling

\* a stopShieldModePolling that clears nothing
StoppedTimersKept == timers

\* lines 1164-1170, stopShieldModePolling: the timers left
StoppedTimers == IF shieldModePollingInterval # 0
                 THEN timers \ {shieldModePollingInterval} ELSE timers

\* lines 1062-1068, fetchShieldModeStatus(broadcasterId, moderatorId, token): the two
\* ids of the request's query
FetchShieldModeStatus(broadcasterId, moderatorId) ==
    [broadcasterId |-> broadcasterId, moderatorId |-> moderatorId]

\* line 1136: the request pollShieldMode issues
PollRequest == FetchShieldModeStatus(currentUserId, currentUserId)

\* lines 1130-1136, pollShieldMode up to its await: the requests in flight after a
\* call made with auth token tok
PollIssued(tok) == IF tok = NoToken \/ currentUserId = 0 THEN polls ELSE polls + 1

\* lines 1122-1124, the interval callback of timer t
TimerTick(t) ==
    /\ t \in timers
    /\ polls < MaxPolls
    /\ polls' = PollIssued(authToken)
    /\ UNCHANGED << session, transport, timers, conn, disc, calls, delivered, discDone >>
    /\ UNCHANGED << outbound, toggling, display, identity, emoteFetch >>
    /\ UNCHANGED provider

\* lines 1136-1158, pollShieldMode after its await: the request succeeded with
\* isActive, or failed
PollResponse(ok, isActive) ==
    /\ polls > 0
    /\ polls' = polls - 1
    /\ IF ok
       THEN /\ Len(delivered) < MaxEvents
            /\ delivered' = Deliver(delivered, << PollEvent(isActive) >>)
       ELSE UNCHANGED delivered
    /\ UNCHANGED << session, transport, timers, conn, disc, calls, discDone >>
    /\ UNCHANGED << outbound, toggling, display, identity, emoteFetch >>
    /\ UNCHANGED provider

\* ------------------------------------------------------------- disconnect()

\* no connect() call is suspended
NoConnectRunning == \A i \in ConnIds : conn[i].pc = "idle"

\* a disconnect() tail that keeps the auth token
DisconnectTailKeepsToken ==
    /\ thirdPartyEmotes' = {}
    /\ timers' = StoppedTimers
    /\ shieldModePollingInterval' = 0
    /\ UNCHANGED authToken

\* lines 522-526: what disconnect() does once the transport's promise has settled
DisconnectTail ==
    /\ thirdPartyEmotes' = {}
    /\ timers' = StoppedTimers
    /\ shieldModePollingInterval' = 0
    /\ authToken' = NoToken

\* lines 513-517, disconnect() called by the panel (dispose, onDidDispose)
DisconnectCall ==
    /\ disc = "idle"
    /\ IF client # 0
       THEN /\ transport' = Teardown(transport, client)
            /\ disc' = "awaitTeardown"
            /\ UNCHANGED discDone
       ELSE /\ discDone' = NoConnectRunning
            /\ UNCHANGED << transport, disc >>
    /\ UNCHANGED << session, timers, polls, conn, calls, delivered >>
    /\ UNCHANGED << outbound, toggling, display, identity, emoteFetch >>

\* disconnect() called by a caller other than the view's onDidDispose
Disconnect == DisconnectCall /\ UNCHANGED provider

\* lines 518-527: the transport's disconnect() settled (resolved or rejected: both
\* continue at line 522)
DisconnectResume ==
    /\ disc = "awaitTeardown"
    /\ disc' = "idle"
    /\ client' = 0
    /\ DisconnectTail
    /\ discDone' = NoConnectRunning
    /\ UNCHANGED << currentChannel, currentUsername, currentUserId, currentUserColor,
                    transport, polls, conn, calls, delivered >>
    /\ UNCHANGED << outbound, toggling, display, identity, emoteFetch >>
    /\ UNCHANGED provider

\* ---------------------------------------------------------------- connect()

\* lines 156-195, connect() from the channel check to its next await, entered with
\* this.client null.  tr is the transport table at that point.
ConnectEntry(i, raw, tok, k, tr) ==
    IF IsBlank(raw)
    THEN /\ client' = 0
         /\ transport' = tr
         /\ conn' = [conn EXCEPT ![i] = [IdleConn EXCEPT !.result = "noop"]]
         /\ UNCHANGED << currentChannel, currentUsername >>
    ELSE /\ currentChannel' = Normalize(raw)
         /\ IF tok # NoToken
            THEN /\ client' = 0
                 /\ transport' = tr
                 /\ conn' = [conn EXCEPT ![i] = [IdleConn EXCEPT !.pc = "awaitUser", !.id = k,
                                !.channel = Normalize(raw), !.token = tok]]
                 /\ UNCHANGED currentUsername
            ELSE /\ currentUsername' = << >>
                 /\ client' = k
                 /\ transport' = [tr EXCEPT ![k] = "connecting"]
                 /\ conn' = [conn EXCEPT ![i] = [IdleConn EXCEPT !.pc = "awaitTransport",
                                !.id = k, !.channel = Normalize(raw), !.token = tok]]

\* lines 147-195, connect(raw, tok) up to its first await
ConnectCall(i, raw, tok) ==
    /\ conn[i].pc = "idle"
    /\ \A j \in 1..(i-1) : conn[j].pc # "idle"
    /\ calls < MaxCalls
    /\ calls' = calls + 1
    /\ discDone' = FALSE
    /\ IF client # 0
       THEN /\ transport' = Teardown(transport, client)
            /\ conn' = [conn EXCEPT ![i] = [IdleConn EXCEPT !.pc = "awaitDisc",
                           !.id = calls + 1, !.channel = raw, !.token = tok]]
            /\ UNCHANGED session
       ELSE /\ ConnectEntry(i, raw, tok, calls + 1, transport)
            /\ UNCHANGED << currentUserId, currentUserColor, thirdPartyEmotes,
                            shieldModePollingInterval, authToken >>
    /\ UNCHANGED << timers, polls, disc, delivered >>
    /\ UNCHANGED << outbound, toggling, display, identity, emoteFetch >>

\* connect(raw, tok) called by a caller other than updateChannel()
Connect(i, raw, tok) == ConnectCall(i, raw, tok) /\ UNCHANGED provider

\* lines 153-195: the disconnect() awaited by connect() completed
ConnectAfterDisconnect(i) ==
    /\ conn[i].pc = "awaitDisc"
    /\ DisconnectTail
    /\ ConnectEntry(i, conn[i].channel, conn[i].token, conn[i].id, transport)
    /\ UNCHANGED << currentUserId, currentUserColor, polls, disc, calls, delivered,
                    discDone >>
    /\ UNCHANGED << outbound, toggling, display, identity, emoteFetch >>
    /\ UNCHANGED provider

\* a connect() that rejects when the user lookup of fetchUsername fails
ConnectAfterUsernameStrict(i, ok) ==
    /\ conn[i].pc = "awaitUser"
    /\ currentUserId' = IF ok THEN AccountId(conn[i].token) ELSE currentUserId
    /\ currentUsername' = IF ok THEN AccountLogin(conn[i].token) ELSE << >>
    /\ IF ok
       THEN /\ client' = conn[i].id
            /\ transport' = [transport EXCEPT ![conn[i].id] = "connecting"]
            /\ identity' = [identity EXCEPT ![conn[i].id] = AccountLogin(conn[i].token)]
            /\ conn' = [conn EXCEPT ![i].pc = "awaitTransport"]
       ELSE /\ conn' = [conn EXCEPT ![i] = [IdleConn EXCEPT !.result = "rejected"]]
            /\ UNCHANGED << client, transport, identity >>
    /\ UNCHANGED << currentChannel, currentUserColor, thirdPartyEmotes,
                    shieldModePollingInterval, authToken, timers, polls, disc, calls,
                    delivered, discDone >>
    /\ UNCHANGED << outbound, toggling, display, emoteFetch >>
    /\ UNCHANGED provider

\* lines 106-135 and 168-195: the user lookup of fetchUsername settled
ConnectAfterUsername(i, ok) ==
    /\ conn[i].pc = "awaitUser"
    /\ currentUserId' = IF ok THEN AccountId(conn[i].token) ELSE currentUserId
    /\ currentUsername' = IF ok THEN AccountLogin(conn[i].token) ELSE << >>
    /\ client' = conn[i].id
    /\ transport' = [transport EXCEPT ![conn[i].id] = "connecting"]
    /\ identity' = [identity EXCEPT ![conn[i].id] =
                        IF ok THEN AccountLogin(conn[i].token) ELSE << >>]
    /\ conn' = [conn EXCEPT ![i].pc = "awaitTransport"]
    /\ UNCHANGED << currentChannel, currentUserColor, thirdPartyEmotes,
                    shieldModePollingInterval, authToken, timers, polls, disc, calls,
                    delivered, discDone >>
    /\ UNCHANGED << outbound, toggling, display, emoteFetch >>
    /\ UNCHANGED provider

\* lines 433-438 and 447-450: the transport's connect() settled
ConnectAfterTransport(i, ok) ==
    /\ conn[i].pc = "awaitTransport"
    /\ IF ok
       THEN /\ transport[conn[i].id] = "connecting"
            /\ transport' = [transport EXCEPT ![conn[i].id] = "open"]
            /\ conn' = [conn EXCEPT ![i].pc = "awaitChanId"]
       ELSE /\ transport' = [transport EXCEPT ![conn[i].id] =
                                IF @ = "connecting" THEN "failed" ELSE @]
            /\ conn' = [conn EXCEPT ![i] = [IdleConn EXCEPT !.result = "rejected"]]
    /\ UNCHANGED << session, timers, polls, disc, calls, delivered, discDone >>
    /\ UNCHANGED << outbound, toggling, display, identity, emoteFetch >>
    /\ UNCHANGED provider

\* lines 438-439: fetchChannelUserId settled with the channel's id, or with undefined
ConnectAfterChannelId(i, ok) ==
    /\ conn[i].pc = "awaitChanId"
    /\ conn' = [conn EXCEPT ![i].pc = "awaitEmotes",
                            ![i].chanId = IF ok THEN ChannelIdOf(conn[i].channel) ELSE 0]
    /\ UNCHANGED << session, transport, timers, polls, disc, calls, delivered, discDone >>
    /\ UNCHANGED << outbound, toggling, display, identity, emoteFetch >>
    /\ UNCHANGED provider

\* lines 439-446 and 1107-1125: fetchAllEmotes settled with catalog; the token is
\* stored and startShieldModePolling runs
ConnectAfterEmotes(i, catalog) ==
    /\ conn[i].pc = "awaitEmotes"
    /\ catalog \in EmoteResults(conn[i].channel, conn[i].chanId)
    /\ thirdPartyEmotes' = catalog
    /\ IF conn[i].token # NoToken
       THEN /\ authToken' = conn[i].token
            /\ IF currentUserId = 0
               THEN /\ timers' = StoppedTimers
                    /\ shieldModePollingInterval' = 0
                    /\ UNCHANGED polls
               ELSE /\ polls < MaxPolls
                    /\ polls' = PollIssued(conn[i].token)
                    /\ timers' = StoppedTimers \cup {conn[i].id}
                    /\ shieldModePollingInterval' = conn[i].id
       ELSE UNCHANGED << authToken, timers, shieldModePollingInterval, polls >>
    /\ conn' = [conn EXCEPT ![i] = [IdleConn EXCEPT !.result = "ok"]]
    /\ UNCHANGED << client, currentChannel, currentUsername, currentUserId,
                    currentUserColor, transport, disc, calls, delivered, discDone >>
    /\ UNCHANGED << outbound, toggling, display, identity, emoteFetch >>
    /\ UNCHANGED provider

\* ------------------------------------------------------------ sendMessage()

\* line 60
BROADCASTER_BADGE_URL ==
    "https://static-cdn.jtvnw.net/badges/v1/5527c58c-fb7d-422d-b71b-f309dcb85cc1/1"

\* the texts the panel sends
Texts == {"hi"}

\* a sendMessage(text) that checks the login before the channel
SendMessageLoginFirst(text) ==
    /\ send.pc = "idle"
    /\ IF client = 0
       THEN /\ send' = [IdleSend EXCEPT !.result = "Not connected to a channel"]
            /\ UNCHANGED said
       ELSE IF currentUsername = << >>
       THEN /\ send' = [IdleSend EXCEPT !.result = "Not authenticated"]
            /\ UNCHANGED said
       ELSE IF currentChannel = << >>
       THEN /\ send' = [IdleSend EXCEPT !.result = "No active channel"]
            /\ UNCHANGED said
       ELSE /\ Len(said) < MaxSends
            /\ said' = Append(said, [client |-> client, channel |-> currentChannel,
                                     text |-> text])
            /\ send' = [pc |-> "awaitSay", text |-> text, at |-> Len(arrived),
                        result |-> "none"]
    /\ UNCHANGED << session, lifecycle, delivered, arrived, mod, lookups, rest,
                    toggling, display >>
    /\ UNCHANGED provider

\* lines 586-600, sendMessage(text) up to its await: the three precondition checks,
\* then the text is handed to the transport
SendMessage(text) ==
    /\ send.pc = "idle"
    /\ IF client = 0
       THEN /\ send' = [IdleSend EXCEPT !.result = "Not connected to a channel"]
            /\ UNCHANGED said
       ELSE IF currentChannel = << >>
       THEN /\ send' = [IdleSend EXCEPT !.result = "No active channel"]
            /\ UNCHANGED said
       ELSE IF currentUsername = << >>
       THEN /\ send' = [IdleSend EXCEPT !.result = "Not authenticated"]
            /\ UNCHANGED said
       ELSE /\ Len(said) < MaxSends
            /\ said' = Append(said, [client |-> client, channel |-> currentChannel,
                                     text |-> text])
            /\ send' = [pc |-> "awaitSay", text |-> text, at |-> Len(arrived),
                        result |-> "none"]
    /\ UNCHANGED << session, lifecycle, delivered, arrived, mod, lookups, rest,
                    toggling, display >>
    /\ UNCHANGED provider

\* an own-message event that always carries the broadcaster badge
SelfMessageBadged(text) ==
    Event("chat", currentUsername,
          IF currentUserColor # "" THEN currentUserColor ELSE "#9147ff",
          {BROADCASTER_BADGE_URL}, ObjectFromEntries(thirdPartyEmotes), text, "send", 0)

\* lines 604-624: the event sendMessage makes for its own text
SelfMessage(text) ==
    Event("chat", currentUsername,
          IF currentUserColor # "" THEN currentUserColor ELSE "#9147ff",
          IF currentUsername = currentChannel THEN {BROADCASTER_BADGE_URL} ELSE {},
          ObjectFromEntries(thirdPartyEmotes), text, "send", 0)

\* lines 600-629: the transport's say() settled
SendResume(ok) ==
    /\ send.pc = "awaitSay"
    /\ IF ok
       THEN /\ Len(delivered) < MaxEvents
            /\ delivered' = Deliver(delivered, << SelfMessage(send.text) >>)
            /\ send' = [IdleSend EXCEPT !.result = "ok"]
       ELSE /\ send' = [IdleSend EXCEPT !.result = "say rejected"]
            /\ UNCHANGED delivered
    /\ UNCHANGED << session, lifecycle, arrived, said, mod, lookups, rest,
                    toggling, display >>
    /\ UNCHANGED provider

\* --------------------------------------------------------------- moderate()

BanAction == <<"b", "a", "n">>

DeleteAction == <<"d", "e", "l", "e", "t", "e">>

UntimeoutAction == <<"u", "n", "t", "i", "m", "e", "o", "u", "t">>

TimeoutPrefix == <<"t", "i", "m", "e", "o", "u", "t", "-">>

\* the texts that follow "timeout-" in the actions the panel sends
DurationTexts == { <<"5">>, <<"1", "2">>, <<"0">>, <<"a", "b", "c">>, <<"-", "5">> }

\* the actions the panel sends (mod menu and the /ban, /timeout, /untimeout commands)
ModActions ==
    {BanAction, DeleteAction, UntimeoutAction} \cup {TimeoutPrefix \o n : n \in DurationTexts}

\* the numeric id of a login as /helix/users?login= returns it
UserIdOf(login) == ChannelIdOf(login)

\* a duration that is undefined
NoDuration == [present |-> FALSE, value |-> 0]

\* lines 743-752, getModerationDuration: the duration, or that it throws
GetModerationDuration(action) ==
    IF action = BanAction
    THEN [throws |-> FALSE, duration |-> NoDuration]
    ELSE IF StartsWith(action, TimeoutPrefix)
    THEN LET pieces == Split(action, "-")
             parsed == IF Len(pieces) >= 2 THEN ParseInt(pieces[2]) ELSE NaN
         IN  [throws |-> FALSE,
              duration |-> [present |-> TRUE,
                            value |-> IF parsed.nan THEN 600 ELSE parsed.val]]
    ELSE [throws |-> TRUE, duration |-> NoDuration]

\* a request to the moderation endpoints: its method and path, the two query ids, the
\* user or message it names, and the duration field of its body
ModRequest(method, path, broadcasterId, moderatorId, userId, messageId, duration, action) ==
    [method |-> method, path |-> path, broadcasterId |-> broadcasterId,
     moderatorId |-> moderatorId, userId |-> userId, messageId |-> messageId,
     duration |-> duration, action |-> action]

\* lines 757-778, apiBanUser: the request; the body carries duration only when defined
ApiBanUser(broadcasterId, moderatorId, userId, duration, action) ==
    ModRequest("POST", "/helix/moderation/bans", broadcasterId, moderatorId, userId, "",
               duration, action)

\* lines 807-818, apiUnbanUser
ApiUnbanUser(broadcasterId, moderatorId, userId, action) ==
    ModRequest("DELETE", "/helix/moderation/bans", broadcasterId, moderatorId, userId, "",
               NoDuration, action)

\* lines 846-862, apiDeleteMessage, called with a message id
ApiDeleteMessage(broadcasterId, moderatorId, messageId, action) ==
    ModRequest("DELETE", "/helix/moderation/chat", broadcasterId, moderatorId, 0,
               messageId, NoDuration, action)

\* lines 648-659, moderate(action, username, token, messageId) up to its first await
Moderate(action, username, messageId) ==
    /\ mod.pc = "idle"
    /\ IF currentChannel = << >>
       THEN /\ mod' = [IdleMod EXCEPT !.result = "No active channel"]
            /\ UNCHANGED lookups
       ELSE IF currentUserId = 0
       THEN /\ mod' = [IdleMod EXCEPT !.result = "Not authenticated"]
            /\ UNCHANGED lookups
       ELSE /\ lookups + 2 <= 2 * MaxModerations
            /\ lookups' = lookups + 1
            /\ mod' = [IdleMod EXCEPT !.pc = "awaitBroadcaster", !.action = action,
                          !.username = username, !.messageId = messageId,
                          !.channel = currentChannel]
    /\ UNCHANGED << session, lifecycle, delivered, arrived, send, said, rest,
                    toggling, display >>
    /\ UNCHANGED provider

\* lines 659-665: the lookup of the broadcaster's id settled
ModerateAfterBroadcaster(ok) ==
    /\ mod.pc = "awaitBroadcaster"
    /\ IF ok
       THEN /\ lookups' = lookups + 1
            /\ mod' = [mod EXCEPT !.pc = "awaitTarget",
                                  !.broadcasterId = ChannelIdOf(mod.channel)]
       ELSE /\ mod' = [mod EXCEPT !.pc = "idle",
                                  !.result = "Could not get broadcaster ID"]
            /\ UNCHANGED lookups
    /\ UNCHANGED << session, lifecycle, delivered, arrived, send, said, rest,
                    toggling, display >>
    /\ UNCHANGED provider

\* lines 665-689: the lookup of the target's id settled; the request is dispatched
ModerateAfterTarget(ok) ==
    /\ mod.pc = "awaitTarget"
    /\ IF ~ok
       THEN /\ mod' = [mod EXCEPT !.pc = "idle", !.result = "Could not find user"]
            /\ UNCHANGED rest
       ELSE IF mod.action = DeleteAction
       THEN IF mod.messageId = ""
            THEN /\ mod' = [mod EXCEPT !.pc = "idle", !.targetId = UserIdOf(mod.username),
                               !.result = "Message ID is required for deletion"]
                 /\ UNCHANGED rest
            ELSE /\ mod' = [mod EXCEPT !.pc = "awaitApi", !.targetId = UserIdOf(mod.username)]
                 /\ rest' = Append(rest, ApiDeleteMessage(mod.broadcasterId, currentUserId,
                                                          mod.messageId, mod.action))
       ELSE IF mod.action = UntimeoutAction
       THEN /\ mod' = [mod EXCEPT !.pc = "awaitApi", !.targetId = UserIdOf(mod.username)]
            /\ rest' = Append(rest, ApiUnbanUser(mod.broadcasterId, currentUserId,
                                                 UserIdOf(mod.username), mod.action))
       ELSE IF GetModerationDuration(mod.action).throws
       THEN /\ mod' = [mod EXCEPT !.pc = "idle", !.targetId = UserIdOf(mod.username),
                          !.result = "Unknown action"]
            /\ UNCHANGED rest
       ELSE /\ mod' = [mod EXCEPT !.pc = "awaitApi", !.targetId = UserIdOf(mod.username)]
            /\ rest' = Append(rest, ApiBanUser(mod.broadcasterId, currentUserId,
                                               UserIdOf(mod.username),
                                               GetModerationDuration(mod.action).duration,
                                               mod.action))
    /\ UNCHANGED << session, lifecycle, delivered, arrived, send, said, lookups,
                    toggling, display >>
    /\ UNCHANGED provider

\* lines 675-689: the moderation request settled
ModerateAfterApi(ok) ==
    /\ mod.pc = "awaitApi"
    /\ mod' = [mod EXCEPT !.pc = "idle", !.result = IF ok THEN "ok" ELSE "request failed"]
    /\ UNCHANGED << session, lifecycle, delivered, arrived, send, said, lookups, rest,
                    toggling, display >>
    /\ UNCHANGED provider

\* --------------------------------------------------------- toggleChatMode()

\* bound: toggleChatMode() calls that reach the network in one behaviour
MaxToggles == 1

\* what the display sends as toggleChatMode: the menu items (part_005 lines 1459-1485)
\* and the commands (part_005 lines 1524-1564): mode, enabled, value
ModeIntents ==
    { <<m, JsBool(b), JsUndefined>> :
          m \in {"shield", "subsOnly", "emotesOnly", "followersOnly"}, b \in BOOLEAN }
    \cup { <<"followersOnly", JsBool(TRUE), JsNumber(10)>> }
    \cup { <<"slowMode", JsUndefined, JsNumber(n)>> : n \in {0, 30} }
    \cup { <<"slowMode", JsUndefined, JsUndefined>> }

\* the body of a chat-settings or shield-mode request: a key the JSON text does not
\* have is undefined
NoBody ==
    [is_active |-> JsUndefined, subscriber_mode |-> JsUndefined,
     emote_mode |-> JsUndefined, follower_mode |-> JsUndefined,
     follower_mode_duration |-> JsUndefined, slow_mode |-> JsUndefined,
     slow_mode_wait_time |-> JsUndefined]

\* a body that turns slow mode on for every value that is given
ChatSettingsBodySlowForAnyValue(m, enabled, value) ==
    CASE m = "subsOnly" -> [NoBody EXCEPT !.subscriber_mode = enabled]
      [] m = "emotesOnly" -> [NoBody EXCEPT !.emote_mode = enabled]
      [] m = "followersOnly" ->
           [NoBody EXCEPT !.follower_mode = enabled,
                          !.follower_mode_duration =
                              IF Truthy(enabled) THEN JsNumber(0) ELSE JsUndefined]
      [] m = "slowMode" ->
           [NoBody EXCEPT !.slow_mode = JsBool(value.type # "undefined"),
                          !.slow_mode_wait_time =
                              IF Truthy(value) THEN value ELSE JsNumber(0)]

\* lines 996-1016, apiUpdateChatSettings: the body for mode m
ChatSettingsBody(m, enabled, value) ==
    CASE m = "subsOnly" -> [NoBody EXCEPT !.subscriber_mode = enabled]
      [] m = "emotesOnly" -> [NoBody EXCEPT !.emote_mode = enabled]
      [] m = "followersOnly" ->
           [NoBody EXCEPT !.follower_mode = enabled,
                          !.follower_mode_duration =
                              IF Truthy(enabled) THEN JsNumber(0) ELSE JsUndefined]
      [] m = "slowMode" ->
           [NoBody EXCEPT !.slow_mode = JsBool(value.type # "undefined" /\ value.value > 0),
                          !.slow_mode_wait_time =
                              IF Truthy(value) THEN value ELSE JsNumber(0)]

\* the modes apiUpdateChatSettings knows (lines 998-1016)
ChatSettingsModes == {"subsOnly", "emotesOnly", "followersOnly", "slowMode"}

\* a request to the shield-mode or chat-settings endpoint
ModeRequest(method, path, broadcasterId, moderatorId, body) ==
    [method |-> method, path |-> path, broadcasterId |-> broadcasterId,
     moderatorId |-> moderatorId, body |-> body]

\* lines 947-964, apiUpdateShieldMode: the request
ApiUpdateShieldMode(broadcasterId, moderatorId, isActive) ==
    ModeRequest("PUT", "/helix/moderation/shield_mode", broadcasterId, moderatorId,
                [NoBody EXCEPT !.is_active = isActive])

\* lines 993-1030, apiUpdateChatSettings: the request
ApiUpdateChatSettings(broadcasterId, moderatorId, m, enabled, value) ==
    ModeRequest("PATCH", "/helix/chat/settings", broadcasterId, moderatorId,
                ChatSettingsBody(m, enabled, value))

\* a shield event that carries the opposite of the requested value
ShieldEventInverted(enabled) ==
    Event("roomstate", << >>, "", {}, EmptyObject,
          ShieldUpdate(JsBool(~Truthy(enabled))), "toggle", 0)

\* lines 916-929: the event toggleChatMode makes once the shield endpoint succeeded
ShieldEvent(enabled) ==
    Event("roomstate", << >>, "", {}, EmptyObject, ShieldUpdate(enabled), "toggle", 0)

\* lines 894-904, toggleChatMode(mode, token, enabled, value) up to its first await
ToggleChatMode(m, enabled, value) ==
    /\ mode.pc = "idle"
    /\ IF currentChannel = << >>
       THEN mode' = [IdleMode EXCEPT !.result = "No active channel"]
       ELSE IF currentUserId = 0
       THEN mode' = [IdleMode EXCEPT !.result = "Not authenticated"]
       ELSE /\ Len(modeRequests) < MaxToggles
            /\ mode' = [IdleMode EXCEPT !.pc = "awaitBroadcaster", !.mode = m,
                           !.enabled = enabled, !.value = value,
                           !.channel = currentChannel]
    /\ UNCHANGED << session, lifecycle, delivered, outbound, modeRequests, display >>
    /\ UNCHANGED provider

\* lines 904-935: the lookup of the broadcaster's id settled; the request is issued
ToggleAfterBroadcaster(ok) ==
    /\ mode.pc = "awaitBroadcaster"
    /\ IF ~ok
       THEN /\ mode' = [mode EXCEPT !.pc = "idle",
                                    !.result = "Could not get broadcaster ID"]
            /\ UNCHANGED modeRequests
       ELSE IF mode.mode = "shield"
       THEN /\ mode' = [mode EXCEPT !.pc = "awaitShield"]
            /\ modeRequests' =
                  Append(modeRequests,
                         ApiUpdateShieldMode(ChannelIdOf(mode.channel), currentUserId,
                                             mode.enabled))
       ELSE IF mode.mode \notin ChatSettingsModes
       THEN /\ mode' = [mode EXCEPT !.pc = "idle", !.result = "Unknown chat mode"]
            /\ UNCHANGED modeRequests
       ELSE /\ mode' = [mode EXCEPT !.pc = "awaitSettings"]
            /\ modeRequests' =
                  Append(modeRequests,
                         ApiUpdateChatSettings(ChannelIdOf(mode.channel), currentUserId,
                                               mode.mode, mode.enabled, mode.value))
    /\ UNCHANGED << session, lifecycle, delivered, outbound, display >>
    /\ UNCHANGED provider

\* lines 913-941: the shield-mode request settled
ToggleAfterShield(ok) ==
    /\ mode.pc = "awaitShield"
    /\ IF ok
       THEN /\ Len(delivered) < MaxEvents
            /\ delivered' = Deliver(delivered, << ShieldEvent(mode.enabled) >>)
            /\ mode' = [mode EXCEPT !.pc = "idle", !.result = "ok"]
       ELSE /\ mode' = [mode EXCEPT !.pc = "idle", !.result = "request failed"]
            /\ UNCHANGED delivered
    /\ UNCHANGED << session, lifecycle, outbound, modeRequests, display >>
    /\ UNCHANGED provider

\* lines 932-941: the chat-settings request settled
ToggleAfterSettings(ok) ==
    /\ mode.pc = "awaitSettings"
    /\ mode' = [mode EXCEPT !.pc = "idle",
                            !.result = IF ok THEN "ok" ELSE "request failed"]
    /\ UNCHANGED << session, lifecycle, delivered, outbound, modeRequests, display >>
    /\ UNCHANGED provider

\* ------------------------------------------------------------ fetchAllEmotes()
\* What the emote providers can answer.  A request that fails (httpsGet rejects: a
\* status other than 200, a body that does not parse, a network error) has ok FALSE.
\* An FFZ or 7TV emote is <<name, url>> with the url as the provider sent it, << >>
\* when it sent none; a BTTV emote is <<code, id>>.
EmoteHostGlobal == <<"g">>
EmoteHostChannel == <<"c">>

ProtocolRelative(h) == <<"/", "/">> \o h

WithScheme(h) == HttpsColon \o <<"/", "/">> \o h

FailedResponse == [ok |-> FALSE, emotes |-> << >>, sharedEmotes |-> << >>]

EmoteResponse(emotes) == [ok |-> TRUE, emotes |-> emotes, sharedEmotes |-> << >>]

FFZResponses(h) ==
    { FailedResponse,
      EmoteResponse(<< >>),
      EmoteResponse(<< <<"A", ProtocolRelative(h)>> >>),
      EmoteResponse(<< <<"A", WithScheme(h)>>, <<"B", h>> >>),
      EmoteResponse(<< <<"B", ProtocolRelative(h)>>, <<"A", << >> >> >>) }

BTTVGlobalResponses ==
    { FailedResponse,
      EmoteResponse(<< >>),
      EmoteResponse(<< <<"A", <<"1">> >> >>),
      EmoteResponse(<< <<"A", <<"1">> >>, <<"B", <<"1">> >> >>) }

BTTVChannelResponses ==
    { FailedResponse }
      \cup { [ok |-> TRUE, emotes |-> c, sharedEmotes |-> sh] :
               c \in { << >>, << <<"A", <<"2">> >> >> },
               sh \in { << >>, << <<"A", <<"3">> >> >>, << <<"B", <<"3">> >> >> } }

SevenTVResponses(h) ==
    { FailedResponse,
      EmoteResponse(<< >>),
      EmoteResponse(<< <<"A", ProtocolRelative(h)>> >>),
      EmoteResponse(<< <<"A", WithScheme(h)>> >>),
      EmoteResponse(<< <<"B", ProtocolRelative(h)>> >>) }

\* emoteService.ts lines 128-133 and 160-165: the emotes of an FFZ answer that have a
\* url, each with the url getFFZEmoteUrl() gives it
FFZEmotes(es) ==
    LET withUrl == SelectSeq(es, LAMBDA e : GetFFZEmoteUrl(e[2]) # << >>)
    IN  [k \in 1..Len(withUrl) |-> <<withUrl[k][1], GetFFZEmoteUrl(withUrl[k][2])>>]

\* emoteService.ts lines 215-219, 227-231 and 234-238
BTTVEmotes(es) == [k \in 1..Len(es) |-> <<es[k][1], BTTVEmoteUrl(es[k][2])>>]

\* emoteService.ts lines 269-274 and 282-287
SevenTVEmotes(es) == [k \in 1..Len(es) |-> <<es[k][1], SevenTVEmoteUrl(es[k][2])>>]

\* what the tier k contributed
Got(k, m) == [emoteFetch.got EXCEPT ![k] = m]

\* emoteService.ts lines 25-30, 55-61 and 117-121: fetchAllEmotes(channelName,
\* channelUserId) up to the request for the global FFZ emotes; channelUserId 0 is none
FetchAllEmotes(channelUserId) ==
    /\ emoteFetch.pc \in {"idle", "done"}
    /\ emoteFetch' = [IdleFetch EXCEPT !.pc = "ffzGlobal", !.channelUserId = channelUserId]
    /\ UNCHANGED << session, transport, identity, timers, polls, conn, disc, calls, discDone,
                    delivered, outbound, toggling, display >>
    /\ UNCHANGED provider

\* emoteService.ts lines 121-141, 62-66 and 149-153: the global FFZ answer, up to the
\* request for the channel's FFZ emotes
FetchFFZGlobalEmotes(r) ==
    /\ emoteFetch.pc = "ffzGlobal"
    /\ LET globalEmotes == IF r.ok THEN SetAll({}, FFZEmotes(r.emotes)) ELSE {}
       IN  emoteFetch' = [emoteFetch EXCEPT !.pc = "ffzChannel",
                                            !.emotes = ForEachSet({}, globalEmotes),
                                            !.got = Got(1, globalEmotes)]
    /\ UNCHANGED << session, transport, identity, timers, polls, conn, disc, calls, discDone,
                    delivered, outbound, toggling, display >>
    /\ UNCHANGED provider

\* emoteService.ts lines 153-178, 67-76, 31-35 and 208-213: the channel's FFZ answer;
\* without a channelUserId the call returns (lines 42-47), with one it goes on to the
\* request for the global BTTV emotes
FetchFFZChannelEmotes(r) ==
    /\ emoteFetch.pc = "ffzChannel"
    /\ LET channelEmotes == IF r.ok THEN SetAll({}, FFZEmotes(r.emotes)) ELSE {}
           ffzEmotes == ForEachSet(emoteFetch.emotes, channelEmotes)
       IN  emoteFetch' = [emoteFetch EXCEPT
               !.pc = IF emoteFetch.channelUserId # 0 THEN "bttvGlobal" ELSE "done",
               !.emotes = {},
               !.allEmotes = ForEachSet({}, ffzEmotes),
               !.got = Got(2, channelEmotes)]
    /\ UNCHANGED << session, transport, identity, timers, polls, conn, disc, calls, discDone,
                    delivered, outbound, toggling, display >>
    /\ UNCHANGED provider

\* emoteService.ts lines 213-225: the global BTTV answer, up to the request for the
\* channel's BTTV emotes; a failed request ends fetchBTTVEmotes() with no emotes
\* (lines 250-254, 36-38 and 262-267)
FetchBTTVGlobalEmotes(r) ==
    /\ emoteFetch.pc = "bttvGlobal"
    /\ emoteFetch' =
         IF r.ok
           THEN LET emotes == SetAll({}, BTTVEmotes(r.emotes))
                IN  [emoteFetch EXCEPT !.pc = "bttvChannel", !.emotes = emotes,
                                      !.got = Got(3, emotes)]
           ELSE [emoteFetch EXCEPT !.pc = "stvGlobal", !.emotes = {}]
    /\ UNCHANGED << session, transport, identity, timers, polls, conn, disc, calls, discDone,
                    delivered, outbound, toggling, display >>
    /\ UNCHANGED provider

\* emoteService.ts lines 225-254, 36-38 and 262-267: the channel's BTTV answer, up to the
\* request for the global 7TV emotes
FetchBTTVChannelEmotes(r) ==
    /\ emoteFetch.pc = "bttvChannel"
    /\ LET channelEmotes == IF r.ok THEN BTTVEmotes(r.emotes) ELSE << >>
           sharedEmotes == IF r.ok THEN BTTVEmotes(r.sharedEmotes) ELSE << >>
           bttvEmotes == SetAll(SetAll(emoteFetch.emotes, channelEmotes), sharedEmotes)
       IN  emoteFetch' = [emoteFetch EXCEPT
               !.pc = "stvGlobal",
               !.emotes = {},
               !.allEmotes = ForEachSet(emoteFetch.allEmotes, bttvEmotes),
               !.got = [Got(4, SetAll({}, channelEmotes)) EXCEPT
                           ![5] = SetAll({}, sharedEmotes)]]
    /\ UNCHANGED << session, transport, identity, timers, polls, conn, disc, calls, discDone,
                    delivered, outbound, toggling, display >>
    /\ UNCHANGED provider

\* emoteService.ts lines 267-280: the global 7TV answer, up to the request for the
\* channel's 7TV emotes; a failed request ends fetch7TVEmotes() with no emotes
\* (lines 299-303) and fetchAllEmotes() returns (lines 39-47)
Fetch7TVGlobalEmotes(r) ==
    /\ emoteFetch.pc = "stvGlobal"
    /\ emoteFetch' =
         IF r.ok
           THEN LET emotes == SetAll({}, SevenTVEmotes(r.emotes))
                IN  [emoteFetch EXCEPT !.pc = "stvChannel", !.emotes = emotes,
                                      !.got = Got(6, emotes)]
           ELSE [emoteFetch EXCEPT !.pc = "done", !.emotes = {}]
    /\ UNCHANGED << session, transport, identity, timers, polls, conn, disc, calls, discDone,
                    delivered, outbound, toggling, display >>
    /\ UNCHANGED provider

\* emoteService.ts lines 280-303 and 39-47: the channel's 7TV answer; fetchAllEmotes()
\* returns allEmotes
Fetch7TVChannelEmotes(r) ==
    /\ emoteFetch.pc = "stvChannel"
    /\ LET channelEmotes == IF r.ok THEN SevenTVEmotes(r.emotes) ELSE << >>
           sevenTVEmotes == SetAll(emoteFetch.emotes, channelEmotes)
       IN  emoteFetch' = [emoteFetch EXCEPT
               !.pc = "done",
               !.emotes = {},
               !.allEmotes = ForEachSet(emoteFetch.allEmotes, sevenTVEmotes),
               !.got = Got(7, SetAll({}, channelEmotes))]
    /\ UNCHANGED << session, transport, identity, timers, polls, conn, disc, calls, discDone,
                    delivered, outbound, toggling, display >>
    /\ UNCHANGED provider

\* ------------------------------------------------------------ updateChannel()

\* the values of the setting twitchChat.channel
SettingsChannels == { << >>, <<"M">> }

\* no updateChannel() call is running
NoUpdateRunning == \A u \in UpdateIds : update[u].pc = "idle"

\* part_005 lines 790-797, updateChannel() up to its first await, as call u: the
\* setting is read, then checkAuthentication() is awaited
UpdateChannel(u, setting, origin) ==
    /\ update[u].pc = "idle"
    /\ \A v \in 1..(u - 1) : update[v].pc # "idle"
    /\ update' = [update EXCEPT ![u] = [IdleUpdate EXCEPT !.pc = "awaitCheck",
                     !.settingsChannel = setting, !.origin = origin]]

\* twitchClient.ts lines 371-376: the setting twitchChat.channel changed to setting
OnDidChangeConfiguration(u, setting) ==
    /\ settingsChannel' = setting
    /\ UpdateChannel(u, setting, "configuration")
    /\ UNCHANGED << secret, connectionStatus, resolved >>
    /\ UNCHANGED << session, lifecycle, delivered, outbound, toggling, display >>

\* part_005 lines 2197-2211 and part_006 lines 69-103: signIn() once the sign-in of
\* the auth provider stored the session of tok
SignIn(u, tok) ==
    /\ secret' = tok
    /\ UpdateChannel(u, settingsChannel, "signIn")
    /\ UNCHANGED << settingsChannel, connectionStatus, resolved >>
    /\ UNCHANGED << session, lifecycle, delivered, outbound, toggling, display >>

\* part_005 lines 2216-2228 and part_006 lines 118-126: signOut() once the auth
\* provider deleted the stored session
SignOut(u) ==
    /\ secret' = NoToken
    /\ UpdateChannel(u, settingsChannel, "signOut")
    /\ UNCHANGED << settingsChannel, connectionStatus, resolved >>
    /\ UNCHANGED << session, lifecycle, delivered, outbound, toggling, display >>

\* part_005 lines 797-798: checkAuthentication() settled; getSession() is awaited
UpdateAfterCheck(u) ==
    /\ update[u].pc = "awaitCheck"
    /\ update' = [update EXCEPT ![u].pc = "awaitSession"]
    /\ UNCHANGED << secret, settingsChannel, connectionStatus, resolved >>
    /\ UNCHANGED << session, lifecycle, delivered, outbound, toggling, display >>

\* part_005 lines 798-799: getSession() settled with the stored session;
\* getAuthToken() is awaited
UpdateAfterSession(u) ==
    /\ update[u].pc = "awaitSession"
    /\ update' = [update EXCEPT ![u].pc = "awaitToken", ![u].session = secret]
    /\ UNCHANGED << secret, settingsChannel, connectionStatus, resolved >>
    /\ UNCHANGED << session, lifecycle, delivered, outbound, toggling, display >>

\* part_005 lines 805-812: the channel to connect to, << >> when there is none
ChannelToConnect(up) ==
    IF up.session # NoToken THEN AccountLogin(up.session)
    ELSE IF ~IsBlank(up.settingsChannel) THEN up.settingsChannel
    ELSE << >>

\* part_005 lines 799-832: getAuthToken() settled with the stored token.  Without a
\* channel 'no-channel' is posted and the call returns; otherwise connect() is called
\* and runs to its first await.
UpdateAfterToken(u) ==
    /\ update[u].pc = "awaitToken"
    /\ IF ChannelToConnect(update[u]) = << >>
       THEN /\ connectionStatus' = [status |-> "no-channel", channel |-> << >>]
            /\ update' = [update EXCEPT ![u] = [IdleUpdate EXCEPT !.origin = update[u].origin]]
            /\ UNCHANGED << session, lifecycle, delivered, outbound, toggling, display >>
       ELSE /\ \E i \in ConnIds :
                 /\ \A v \in UpdateIds : update[v].pc = "awaitConnect" => update[v].slot # i
                 /\ ConnectCall(i, ChannelToConnect(update[u]), secret)
                 /\ update' = [update EXCEPT ![u].pc = "awaitConnect", ![u].slot = i,
                                  ![u].channel = ChannelToConnect(update[u])]
            /\ UNCHANGED connectionStatus
    /\ UNCHANGED << secret, settingsChannel, resolved >>

\* part_005 lines 832-855: the connect() of call u settled: 'connected' with the
\* channel is posted when it resolved, 'error' when it rejected
UpdateAfterConnect(u) ==
    /\ update[u].pc = "awaitConnect"
    /\ conn[update[u].slot].pc = "idle"
    /\ connectionStatus' =
          IF conn[update[u].slot].result = "rejected"
          THEN [status |-> "error", channel |-> << >>]
          ELSE [status |-> "connected", channel |-> update[u].channel]
    /\ update' = [update EXCEPT ![u] = [IdleUpdate EXCEPT !.origin = update[u].origin]]
    /\ UNCHANGED << secret, settingsChannel, resolved >>
    /\ UNCHANGED << session, lifecycle, delivered, outbound, toggling, display >>

\* part_005 lines 705-779, resolveWebviewView(webviewView, ...): the listeners are
\* registered, the flags are set when the view is visible on creation, and
\* updateChannel() is called and runs to its first await
ResolveWebviewView(visible) ==
    /\ ~resolved
    /\ resolved' = TRUE
    /\ isViewVisible' = IF visible THEN TRUE ELSE isViewVisible
    /\ isViewActive' = IF visible THEN TRUE ELSE isViewActive
    /\ \E u \in UpdateIds : UpdateChannel(u, settingsChannel, "resolve")
    /\ UNCHANGED << secret, settingsChannel, connectionStatus >>
    /\ UNCHANGED << session, lifecycle, delivered, outbound, toggling, roomState, shown,
                    chatContainer, unreadCount >>

\* part_005 lines 772-776: the view was disposed; disconnect() is called and runs to
\* its first await
OnDidDispose ==
    /\ resolved
    /\ resolved' = FALSE
    /\ DisconnectCall
    /\ UNCHANGED << secret, settingsChannel, connectionStatus, update >>

\* -------------------------------------------------------- the specification

Next ==
    \/ \E i \in ConnIds, raw \in RawChannels, tok \in Tokens \cup {NoToken} :
          Connect(i, raw, tok)
    \/ \E i \in ConnIds : ConnectAfterDisconnect(i)
    \/ \E i \in ConnIds, ok \in BOOLEAN : ConnectAfterUsername(i, ok)
    \/ \E i \in ConnIds, ok \in BOOLEAN : ConnectAfterTransport(i, ok)
    \/ \E i \in ConnIds, ok \in BOOLEAN : ConnectAfterChannelId(i, ok)
    \/ \E i \in ConnIds, catalog \in SUBSET ({"Kappa", "catJAM"} \X {<<"a">>, << >>}) :
          ConnectAfterEmotes(i, catalog)
    \/ Disconnect
    \/ DisconnectResume
    \/ \E t \in TransportIds : TimerTick(t)
    \/ \E ok \in BOOLEAN, isActive \in BOOLEAN : PollResponse(ok, isActive)

Spec == Init /\ [][Next]_vars

\* the session with one connect() call, its frames and its outbound sendMessage
NextSend ==
    \/ \E raw \in RawChannels, tok \in AllTokens \cup {NoToken} :
          calls = 0 /\ Connect(1, raw, tok)
    \/ \E ok \in BOOLEAN : ConnectAfterUsername(1, ok)
    \/ \E ok \in BOOLEAN : ConnectAfterTransport(1, ok)
    \/ \E ok \in BOOLEAN : ConnectAfterChannelId(1, ok)
    \/ \E catalog \in SUBSET ({"Kappa", "catJAM"} \X {<<"a">>, << >>}) :
          ConnectAfterEmotes(1, catalog)
    \/ Disconnect
    \/ DisconnectResume
    \/ \E ok \in BOOLEAN, isActive \in BOOLEAN : PollResponse(ok, isActive)
    \/ \E t \in TransportIds, f \in Frames : OnFrame(t, f)
    \/ \E text \in Texts : SendMessage(text)
    \/ \E ok \in BOOLEAN : SendResume(ok)

SpecSend == Init /\ [][NextSend]_vars

\* the session with one connect() call and the panel's moderate() calls
NextMod ==
    \/ \E raw \in RawChannels, tok \in AllTokens \cup {NoToken} :
          calls = 0 /\ Connect(1, raw, tok)
    \/ \E ok \in BOOLEAN : ConnectAfterUsername(1, ok)
    \/ \E ok \in BOOLEAN : ConnectAfterTransport(1, ok)
    \/ \E ok \in BOOLEAN : ConnectAfterChannelId(1, ok)
    \/ \E catalog \in SUBSET ({"Kappa", "catJAM"} \X {<<"a">>, << >>}) :
          ConnectAfterEmotes(1, catalog)
    \/ Disconnect
    \/ DisconnectResume
    \/ \E action \in ModActions, username \in {<<"b">>, <<"m">>}, messageId \in {"", "msg1"} :
          Moderate(action, username, messageId)
    \/ \E ok \in BOOLEAN : ModerateAfterBroadcaster(ok)
    \/ \E ok \in BOOLEAN : ModerateAfterTarget(ok)
    \/ \E ok \in BOOLEAN : ModerateAfterApi(ok)

SpecMod == Init /\ [][NextMod]_vars

\* the session with one connect() call, the room-state frames and polls of its
\* connection, the display's toggleChatMode() calls, and the display
NextRoom ==
    \/ \E tok \in AllTokens \cup {NoToken} : calls = 0 /\ Connect(1, <<"#", "A">>, tok)
    \/ \E ok \in BOOLEAN : ConnectAfterUsername(1, ok)
    \/ \E ok \in BOOLEAN : ConnectAfterTransport(1, ok)
    \/ \E ok \in BOOLEAN : ConnectAfterChannelId(1, ok)
    \/ ConnectAfterEmotes(1, {})
    \/ \E ok \in BOOLEAN, isActive \in BOOLEAN : PollResponse(ok, isActive)
    \/ \E t \in TransportIds, f \in RoomFrames : OnFrame(t, f)
    \/ \E i \in ModeIntents : ToggleChatMode(i[1], i[2], i[3])
    \/ \E ok \in BOOLEAN : ToggleAfterBroadcaster(ok)
    \/ \E ok \in BOOLEAN : ToggleAfterShield(ok)
    \/ \E ok \in BOOLEAN : ToggleAfterSettings(ok)
    \/ ShowEvent

SpecRoom == Init /\ [][NextRoom]_vars

\* fetchAllEmotes() on its own, for every answer of the providers
NextEmotes ==
    \/ \E channelUserId \in {0, ChannelIdOf(<<"a">>)} : FetchAllEmotes(channelUserId)
    \/ \E r \in FFZResponses(EmoteHostGlobal) : FetchFFZGlobalEmotes(r)
    \/ \E r \in FFZResponses(EmoteHostChannel) : FetchFFZChannelEmotes(r)
    \/ \E r \in BTTVGlobalResponses : FetchBTTVGlobalEmotes(r)
    \/ \E r \in BTTVChannelResponses : FetchBTTVChannelEmotes(r)
    \/ \E r \in SevenTVResponses(EmoteHostGlobal) : Fetch7TVGlobalEmotes(r)
    \/ \E r \in SevenTVResponses(EmoteHostChannel) : Fetch7TVChannelEmotes(r)

SpecEmotes == Init /\ [][NextEmotes]_vars

\* the display on its own, for every sequence of messages posted to it
NextChat == \E msg \in DisplayMessages : ShowMessage(msg)

SpecChat == Init /\ [][NextChat]_vars

\* channel names of two channels
TwoChannels == { <<"#", "A">>, <<"#", "M">> }

\* connect() and disconnect() calls in any interleaving, for two channels
NextOverlap ==
    \/ \E i \in ConnIds, raw \in TwoChannels, tok \in Tokens \cup {NoToken} :
          Connect(i, raw, tok)
    \/ \E i \in ConnIds : ConnectAfterDisconnect(i)
    \/ \E i \in ConnIds, ok \in BOOLEAN : ConnectAfterUsername(i, ok)
    \/ \E i \in ConnIds, ok \in BOOLEAN : ConnectAfterTransport(i, ok)
    \/ \E i \in ConnIds, ok \in BOOLEAN : ConnectAfterChannelId(i, ok)
    \/ \E i \in ConnIds, catalog \in SUBSET ({"Kappa", "catJAM"} \X {<<"a">>, <<"m">>}) :
          ConnectAfterEmotes(i, catalog)
    \/ Disconnect
    \/ DisconnectResume
    \/ \E ok \in BOOLEAN, isActive \in BOOLEAN : PollResponse(ok, isActive)

SpecOverlap == Init /\ [][NextOverlap]_vars

\* one session after another on the same instance, connect() called when no other
\* connect() is running, with the panel's outbound calls
NextIdentity ==
    \/ \E tok \in Tokens \cup {NoToken} :
          NoConnectRunning /\ Connect(1, <<"#", "A">>, tok)
    \/ ConnectAfterDisconnect(1)
    \/ \E ok \in BOOLEAN : ConnectAfterUsername(1, ok)
    \/ \E ok \in BOOLEAN : ConnectAfterTransport(1, ok)
    \/ \E ok \in BOOLEAN : ConnectAfterChannelId(1, ok)
    \/ ConnectAfterEmotes(1, {})
    \/ Disconnect
    \/ DisconnectResume
    \/ \E ok \in BOOLEAN, isActive \in BOOLEAN : PollResponse(ok, isActive)
    \/ Moderate(BanAction, <<"b">>, "")
    \/ \E ok \in BOOLEAN : ModerateAfterBroadcaster(ok)
    \/ \E ok \in BOOLEAN : ModerateAfterTarget(ok)
    \/ \E ok \in BOOLEAN : ModerateAfterApi(ok)
    \/ \E m \in {"shield", "subsOnly"} : ToggleChatMode(m, JsBool(TRUE), JsUndefined)
    \/ \E ok \in BOOLEAN : ToggleAfterBroadcaster(ok)
    \/ \E ok \in BOOLEAN : ToggleAfterShield(ok)
    \/ \E ok \in BOOLEAN : ToggleAfterSettings(ok)
    \/ \E text \in Texts : SendMessage(text)
    \/ \E ok \in BOOLEAN : SendResume(ok)

SpecIdentity == Init /\ [][NextIdentity]_vars

\* the provider on its own, for every sequence of events and panel changes
NextProvider ==
    \/ \E message \in ProviderMessages : HandleMessage(message)
    \/ \E visible \in BOOLEAN : OnDidChangeVisibility(visible)
    \/ WebviewFocused
    \/ \E visible \in BOOLEAN : ResolveWebviewView(visible)
    \/ OnDidDispose
    \/ \E u \in UpdateIds : UpdateAfterCheck(u)
    \/ \E u \in UpdateIds : UpdateAfterSession(u)
    \/ \E u \in UpdateIds : UpdateAfterToken(u)

SpecProvider == Init /\ [][NextProvider]_vars

\* usernames for the color function: the empty string, one whose hash is -2^31, one
\* whose hash is negative, one whose hash is positive
ColorUsernames ==
    { << >>,
      <<"x", "f", "j", "f", "z", "6", "f">>,
      <<"b", "a", "n", "a", "n", "a">>,
      <<"b">> }

\* chat and subscription frames of these users without a color tag
ColorFrames ==
    { Frame(k, u, "", FALSE, TRUE) : k \in {"message", "subscription"}, u \in ColorUsernames }

\* the session with one connect() call and the frames of users without a color
NextColor ==
    \/ \E tok \in Tokens \cup {NoToken} : calls = 0 /\ Connect(1, <<"#", "A">>, tok)
    \/ \E ok \in BOOLEAN : ConnectAfterUsername(1, ok)
    \/ \E ok \in BOOLEAN : ConnectAfterTransport(1, ok)
    \/ \E ok \in BOOLEAN : ConnectAfterChannelId(1, ok)
    \/ ConnectAfterEmotes(1, {})
    \/ \E t \in TransportIds, f \in ColorFrames : OnFrame(t, f)

SpecColor == Init /\ [][NextColor]_vars

\* the session with one connect() call, room-state frames that carry one mode tag, and
\* the display
NextPartial ==
    \/ \E tok \in Tokens \cup {NoToken} : calls = 0 /\ Connect(1, <<"#", "A">>, tok)
    \/ \E ok \in BOOLEAN : ConnectAfterUsername(1, ok)
    \/ \E ok \in BOOLEAN : ConnectAfterTransport(1, ok)
    \/ \E ok \in BOOLEAN : ConnectAfterChannelId(1, ok)
    \/ ConnectAfterEmotes(1, {})
    \/ \E t \in TransportIds, f \in PartialFrames : OnFrame(t, f)
    \/ ShowEvent

SpecPartial == Init /\ [][NextPartial]_vars

\* the global-account-state frames
GlobalUserStateFrames == { f \in Frames : f.cmd = "GLOBALUSERSTATE" }

\* one session after another on the same instance, with the global-account-state
\* frames of their connections and the panel's sendMessage() calls
NextSession ==
    \/ \E tok \in AllTokens : NoConnectRunning /\ Connect(1, <<"#", "A">>, tok)
    \/ ConnectAfterDisconnect(1)
    \/ \E ok \in BOOLEAN : ConnectAfterUsername(1, ok)
    \/ \E ok \in BOOLEAN : ConnectAfterTransport(1, ok)
    \/ \E ok \in BOOLEAN : ConnectAfterChannelId(1, ok)
    \/ ConnectAfterEmotes(1, {})
    \/ \E ok \in BOOLEAN, isActive \in BOOLEAN : PollResponse(ok, isActive)
    \/ \E t \in TransportIds, f \in GlobalUserStateFrames : OnFrame(t, f)
    \/ \E text \in Texts : SendMessage(text)
    \/ \E ok \in BOOLEAN : SendResume(ok)

SpecSession == Init /\ [][NextSession]_vars

\* the provider's updateChannel() calls, started by changes of the setting, sign-in
\* and sign-out, in any interleaving, with the connect() calls they make
NextUpdate ==
    \/ \E u \in UpdateIds, setting \in SettingsChannels : OnDidChangeConfiguration(u, setting)
    \/ \E u \in UpdateIds, tok \in Tokens : SignIn(u, tok)
    \/ \E u \in UpdateIds : SignOut(u)
    \/ \E u \in UpdateIds : UpdateAfterCheck(u)
    \/ \E u \in UpdateIds : UpdateAfterSession(u)
    \/ \E u \in UpdateIds : UpdateAfterToken(u)
    \/ \E u \in UpdateIds : UpdateAfterConnect(u)
    \/ \E i \in ConnIds : ConnectAfterDisconnect(i)
    \/ \E i \in ConnIds, ok \in BOOLEAN : ConnectAfterUsername(i, ok)
    \/ \E i \in ConnIds, ok \in BOOLEAN : ConnectAfterTransport(i, ok)
    \/ \E i \in ConnIds, ok \in BOOLEAN : ConnectAfterChannelId(i, ok)
    \/ \E i \in ConnIds : ConnectAfterEmotes(i, {})
    \/ \E ok \in BOOLEAN, isActive \in BOOLEAN : PollResponse(ok, isActive)

SpecUpdate == Init /\ [][NextUpdate]_vars

\* the same with one updateChannel() call after another
NextSequential ==
    \/ \E setting \in SettingsChannels : OnDidChangeConfiguration(1, setting)
    \/ \E tok \in Tokens : SignIn(1, tok)
    \/ SignOut(1)
    \/ UpdateAfterCheck(1)
    \/ UpdateAfterSession(1)
    \/ UpdateAfterToken(1)
    \/ UpdateAfterConnect(1)
    \/ ConnectAfterDisconnect(1)
    \/ \E ok \in BOOLEAN : ConnectAfterUsername(1, ok)
    \/ \E ok \in BOOLEAN : ConnectAfterTransport(1, ok)
    \/ \E ok \in BOOLEAN : ConnectAfterChannelId(1, ok)
    \/ ConnectAfterEmotes(1, {})
    \/ \E ok \in BOOLEAN, isActive \in BOOLEAN : PollResponse(ok, isActive)

SpecSequential == Init /\ [][NextSequential]_vars


\* ------------------------------------------------------------------ claims

\* the transport clients that were opened and not torn down
LiveTransports == {t \in TransportIds : Live(t)}

\* every input a caller may give connect()
ConnectInputs == RawChannels \X (Tokens \cup {NoToken})

\* no connect() call and no panel disconnect() is suspended
NoCallRunning == disc = "idle" /\ NoConnectRunning

\* the step delivered an event made by pollShieldMode
PollDelivered ==
    /\ Len(delivered') = Len(delivered) + 1
    /\ delivered'[Len(delivered')].via = "poll"

\* C1: for every interleaving of connect() and disconnect() calls, at most one
\* transport client that was opened and not yet torn down exists at any time.
C1_AtMostOneLiveTransport == Cardinality(LiveTransports) <= 1

\* C2: once a disconnect() call has completed (and no connect() was called since and
\* none is still running), no event made by a shield-mode poll is delivered to the
\* consumer callback, also when the poll request was in flight at the disconnect.
C2_NoPollEventAfterDisconnect ==
    [][(discDone /\ NoCallRunning) => ~PollDelivered]_vars

\* C3: connect() with a name that is empty after normalization is a silent no-op: the
\* call returns at once, creates no transport client, and leaves the connection, the
\* current channel and the emote catalog as they were.
C3_EmptyChannelConnectIsNoOp ==
    [][\A i \in ConnIds, in \in ConnectInputs :
          (Normalize(in[1]) = << >> /\ Connect(i, in[1], in[2]))
              => /\ conn'[i].pc = "idle"
                 /\ UNCHANGED << client, currentChannel, thirdPartyEmotes, transport >>]_vars

\* the events the frame handlers delivered, in delivery order
FrameEvents == SelectSeq(delivered, LAMBDA e : e.via = "frame")

\* the frames the claim says are forwarded: chat messages (not the echo of the
\* session's own message), subscriptions, resubs, gifts, ROOMSTATE, CLEARMSG and
\* CLEARCHAT that carry their tags; GLOBALUSERSTATE makes no event
ForwardedFrame(f) ==
    /\ f.cmd # "GLOBALUSERSTATE"
    /\ ~(f.cmd = "message" /\ f.self)
    /\ (f.cmd \in {"ROOMSTATE", "CLEARMSG"} => f.tagged)

\* the arrival numbers of the forwarded frames, ascending
ForwardedArrivals ==
    SelectSeq([n \in 1..Len(arrived) |-> n], LAMBDA n : ForwardedFrame(arrived[n]))

\* C4: inbound frames are forwarded to the callback in exactly the order they arrived,
\* one callback invocation per forwarded frame, with no reordering, batching or
\* coalescing, also while an outbound call (send, poll) is suspended.
C4_FramesForwardedInArrivalOrder ==
    [k \in 1..Len(FrameEvents) |-> FrameEvents[k].src] = ForwardedArrivals

\* two frames arrived and were forwarded while a sendMessage() and a poll were suspended
C4_Witness ==
    /\ send.pc = "awaitSay" /\ send.at = 0 /\ polls > 0
    /\ Len(FrameEvents) = 2
    /\ FrameEvents[1].kind = "deletedMessage" /\ FrameEvents[2].kind = "chat"

\* the kinds of event made for a user: messages, subscriptions, resubs, gifts
UserKinds == {"chat", "subscription", "resub", "subgift", "submysterygift"}

\* the palette as a set
Palette == {Colors[k] : k \in 1..Len(Colors)}

\* the frame event e was made from a frame that supplied no color
NoColorSupplied(e) == e.via = "frame" /\ arrived[e.src].color = ""

SendPreconditionError ==
    IF client = 0 THEN "Not connected to a channel"
    ELSE IF currentChannel = << >> THEN "No active channel"
    ELSE IF currentUsername = << >> THEN "Not authenticated"
    ELSE ""

\* C6: sendMessage() rejects with a distinct error for each violated precondition,
\* checked in the order not-connected, no-channel, not-authenticated; then nothing is
\* sent over the transport, no event is emitted and the session state is unchanged.
C6_SendPreconditions ==
    [][\A text \in Texts :
          (SendMessage(text) /\ SendPreconditionError # "")
              => /\ send'.pc = "idle"
                 /\ send'.result = SendPreconditionError
                 /\ UNCHANGED << said, delivered, session >>]_vars

\* a sendMessage() on an open, unauthenticated connection was rejected
C6_Witness ==
    /\ send.result = "Not authenticated"
    /\ client # 0 /\ transport[client] = "open" /\ currentChannel # << >>
    /\ said = << >> /\ \A k \in 1..Len(delivered) : delivered[k].via # "send"

\* C7: after a successful transport send, sendMessage emits exactly one event for the
\* sent text, with the broadcaster badge iff the authenticated login equals the current
\* channel and with the session's display color (#9147ff when none was supplied); when
\* the transport rejects the send, the error propagates and no event is emitted.
C7_SelfMessageAfterSend ==
    [][(send.pc = "awaitSay" /\ send'.pc = "idle")
          => IF send'.result = "ok"
             THEN /\ Len(delivered') = Len(delivered) + 1
                  /\ SubSeq(delivered', 1, Len(delivered)) = delivered
                  /\ LET e == delivered'[Len(delivered')]
                     IN  /\ e.via = "send" /\ e.data = send.text
                         /\ (BROADCASTER_BADGE_URL \in e.badges)
                               <=> (currentUsername = currentChannel)
                         /\ e.badges \subseteq {BROADCASTER_BADGE_URL}
                         /\ e.color = IF currentUserColor = "" THEN "#9147ff"
                                      ELSE currentUserColor
             ELSE /\ send'.result = "say rejected"
                  /\ delivered' = delivered]_vars

\* own messages were delivered: one by the broadcaster with the color the protocol
\* supplied, or one by a moderator of another channel with the brand color
C7_Witness ==
    \E k \in 1..Len(delivered) :
        /\ delivered[k].via = "send"
        /\ delivered[k].badges = {}
        /\ delivered[k].username = <<"m">>
        /\ delivered[k].color = "#9147ff"

\* C8 as stated: moderate('delete', username, token) without a message id rejects
\* before any network call: the call returns at once, and it issues no user-lookup
\* request and no moderation request.
C8_DeleteWithoutIdRejectsBeforeNetwork ==
    [][(\E username \in {<<"b">>, <<"m">>} : Moderate(DeleteAction, username, ""))
          => (mod'.pc = "idle" /\ lookups' = lookups /\ rest' = rest)]_vars

\* the method the claim gives to an action's moderation request
MethodOf(action) ==
    IF action \in {UntimeoutAction, DeleteAction} THEN "DELETE" ELSE "POST"

\* C9 as stated: a moderation request is issued only once both ids are resolved, and it
\* is the one request of the call, with the action's method; a failed lookup rejects
\* the call with no request; when both lookups succeed exactly one request is issued.
C9_OneRequestAfterBothLookups ==
    [][/\ rest' # rest =>
            /\ mod.pc = "awaitTarget"
            /\ mod'.broadcasterId # 0 /\ mod'.targetId # 0
            /\ Len(rest') = Len(rest) + 1
            /\ SubSeq(rest', 1, Len(rest)) = rest
            /\ rest'[Len(rest')].method = MethodOf(mod.action)
       /\ (mod'.result \in {"Could not get broadcaster ID", "Could not find user"}
             /\ mod.pc \in {"awaitBroadcaster", "awaitTarget"})
            => (mod'.pc = "idle" /\ rest' = rest)
       /\ (mod.pc = "awaitTarget" /\ mod'.targetId # 0)
            => Len(rest') = Len(rest) + 1]_vars

\* the text N of an action timeout-N
DurationText(action) == SubSeq(action, Len(TimeoutPrefix) + 1, Len(action))

\* C10 as stated: the request of a ban carries no duration; the request of every
\* timeout-N carries a duration, which is N when N parses as an integer and 600 when it
\* does not.
C10_BanAndTimeoutDurations ==
    \A k \in 1..Len(rest) :
        /\ rest[k].action = BanAction => ~rest[k].duration.present
        /\ StartsWith(rest[k].action, TimeoutPrefix) =>
              /\ rest[k].method = "POST"
              /\ rest[k].duration.present
              /\ rest[k].duration.value =
                    IF ParseInt(DurationText(rest[k].action)).nan
                    THEN 600
                    ELSE ParseInt(DurationText(rest[k].action)).val

\* the followers-only value of the last of the first n delivered events that carries
\* one, the display's initial value when none does
RECURSIVE LastFollowersOnly(_)
LastFollowersOnly(n) ==
    IF n = 0 THEN InitialRoomState.followersOnly
    ELSE IF delivered[n].kind = "roomstate"
            /\ delivered[n].data.followersOnly.type # "undefined"
    THEN delivered[n].data.followersOnly
    ELSE LastFollowersOnly(n - 1)

\* C11: the followers-only setting keeps three distinct states end to end: a room-state
\* frame with followers-only -1 yields disabled (false), 0 yields the number 0 (mode
\* on), N yields N; the display's room state holds the value of the last update it
\* processed unchanged, and shows 0 as ON.
C11_FollowersOnlyThreeStates ==
    /\ \A k \in 1..Len(delivered) :
          (delivered[k].via = "frame" /\ delivered[k].kind = "roomstate"
             /\ arrived[delivered[k].src].followers # << >>)
          => LET v == arrived[delivered[k].src].followers
                 followersOnly == delivered[k].data.followersOnly
             IN  /\ v = <<"-", "1">> => followersOnly = JsBool(FALSE)
                 /\ v = <<"0">> => followersOnly = JsNumber(0)
                 /\ v = <<"1", "0">> => followersOnly = JsNumber(10)
    /\ roomState.followersOnly = LastFollowersOnly(shown)
    /\ roomState.followersOnly = JsNumber(0)
          => (FollowersStatus = "ON" /\ ~FollowersMenuEnabled)
    /\ roomState.followersOnly = JsBool(FALSE)
          => (FollowersStatus = "OFF" /\ FollowersMenuEnabled)

\* the display processed a frame with followers-only -1 and then one with 0
C11_Witness ==
    /\ Len(arrived) = 2 /\ Len(delivered) = 2 /\ shown = 2
    /\ arrived[1].followers = <<"-", "1">> /\ arrived[2].followers = <<"0">>
    /\ delivered[1].data.followersOnly = JsBool(FALSE)
    /\ roomState.followersOnly = JsNumber(0)

\* C12 as stated: toggleChatMode('followersOnly', token, enabled, value) with enabled
\* true sends follower_mode true with a duration equal to value when one is given and
\* 0 when none is; with enabled false it sends follower_mode false and no duration.
C12_FollowersDuration ==
    [][(mode.pc = "awaitBroadcaster" /\ mode.mode = "followersOnly"
          /\ modeRequests' # modeRequests)
       => LET body == modeRequests'[Len(modeRequests')].body
          IN  /\ body.follower_mode = mode.enabled
              /\ body.follower_mode_duration =
                    IF ~Truthy(mode.enabled) THEN JsUndefined
                    ELSE IF mode.value.type = "number" THEN mode.value
                    ELSE JsNumber(0)]_vars

\* C13: toggleChatMode('shield', ...) emits exactly one room-state-update carrying the
\* requested shield value in the step in which the shield endpoint call succeeds, and
\* only then; when the lookup or the call fails it emits none and the error propagates.
C13_ShieldEventAfterSuccess ==
    [][/\ (mode.pc = "awaitShield" /\ mode'.pc = "idle")
           => IF mode'.result = "ok"
              THEN /\ Len(delivered') = Len(delivered) + 1
                   /\ SubSeq(delivered', 1, Len(delivered)) = delivered
                   /\ delivered'[Len(delivered')].kind = "roomstate"
                   /\ delivered'[Len(delivered')].via = "toggle"
                   /\ delivered'[Len(delivered')].data = ShieldUpdate(mode.enabled)
              ELSE mode'.result = "request failed" /\ delivered' = delivered
       /\ (mode.pc # "idle" /\ mode'.pc = "idle" /\ mode'.result # "ok")
           => delivered' = delivered
       /\ (Len(delivered') > Len(delivered) /\ delivered'[Len(delivered')].via = "toggle")
           => (mode.pc = "awaitShield" /\ mode.mode = "shield")]_vars

\* a shield toggle to on succeeded and the display shows its event
C13_Witness ==
    /\ mode.pc = "idle" /\ mode.mode = "shield" /\ mode.result = "ok"
    /\ mode.enabled = JsBool(TRUE)
    /\ shown = Len(delivered) /\ shown > 0
    /\ delivered[shown].via = "toggle"
    /\ roomState.shieldMode = JsBool(TRUE)

\* what connect() reads of the session before it writes it is as on a fresh instance
FreshForConnect ==
    /\ client = 0
    /\ currentUserId = 0
    /\ shieldModePollingInterval = 0

\* C14 as stated: disconnect() called when not connected (never connected, or already
\* disconnected) changes nothing and raises no error, and it leaves the session such
\* that a connect() issued afterwards behaves as on a fresh instance.
C14_DisconnectIdempotent ==
    [][(Disconnect /\ client = 0 /\ NoConnectRunning)
          => /\ disc' = "idle"
             /\ UNCHANGED << session, transport, timers, polls, conn, calls, delivered >>
             /\ FreshForConnect']_vars

\* lines 636-638, isConnected()
IsConnected == client # 0 /\ currentChannel # << >>

\* C15: when a disconnect() call made on a connected session returns, whether the
\* transport's teardown resolved or raised, the transport handle is discarded
\* (isConnected() is false), the emote catalog is empty, the shield-mode poll timer is
\* stopped and the auth token is cleared.
C15_DisconnectClears ==
    [][(disc = "awaitTeardown" /\ disc' = "idle")
          => /\ client' = 0 /\ ~IsConnected'
             /\ thirdPartyEmotes' = {}
             /\ shieldModePollingInterval' = 0 /\ timers' = {}
             /\ authToken' = NoToken]_vars

\* a disconnect() returned on a session that an authenticated connect() had opened
C15_Witness ==
    /\ disc = "idle" /\ discDone
    /\ conn[1].result = "ok" /\ currentUserId # 0
    /\ \E t \in TransportIds : transport[t] = "closed"
    /\ client = 0 /\ thirdPartyEmotes = {} /\ timers = {} /\ authToken = NoToken

\* C16: connect() rejects only when the transport-level connect fails: a token whose
\* account lookup fails gives a connection without identity and without resolved
\* login, and a failed channel-id lookup, an empty emote fetch and a failed shield poll
\* never reject connect().
C16_OnlyTransportFailureRejects ==
    [][\A i \in ConnIds :
          /\ (conn[i].pc # "idle" /\ conn'[i].pc = "idle" /\ conn'[i].result = "rejected")
                => conn[i].pc = "awaitTransport"
          /\ ConnectAfterUsername(i, FALSE)
                => /\ conn'[i].pc = "awaitTransport"
                   /\ currentUsername' = << >>
                   /\ client' = conn[i].id /\ identity'[conn[i].id] = << >>
          /\ (conn[i].pc = "awaitChanId" \/ conn[i].pc = "awaitEmotes")
                => (conn'[i].pc = "idle" => conn'[i].result = "ok")
          /\ (\E isActive \in BOOLEAN : PollResponse(FALSE, isActive))
                => conn' = conn]_vars

\* a connect() with a token completed although its account lookup, its channel-id
\* lookup and its emote fetches failed: the connection is open and anonymous
C16_Witness ==
    /\ conn[1].result = "ok" /\ conn[1].pc = "idle" /\ calls = 1
    /\ authToken # NoToken
    /\ currentUsername = << >> /\ currentUserId = 0
    /\ client # 0 /\ transport[client] = "open" /\ identity[client] = << >>
    /\ thirdPartyEmotes = {}

\* C17 as stated: when the transport-level connect fails, connect() rejects and the
\* session is left not connected: isConnected() is false, no shield poll timer is
\* running, and a sendMessage() made then rejects with the not-connected error.
C17_FailedConnectLeavesNotConnected ==
    [][\A i \in ConnIds :
          (conn[i].pc = "awaitTransport" /\ conn'[i].pc = "idle"
             /\ conn'[i].result = "rejected")
          => /\ ~IsConnected'
             /\ shieldModePollingInterval' = 0 /\ timers' = {}
             /\ SendPreconditionError' = "Not connected to a channel"]_vars

\* the names the map m defines
MapNames(m) == {e[1] : e \in m}

\* the last tier, in the order of Tiers, whose contribution defines the name
LastTierWith(name) ==
    CHOOSE k \in 1..Len(Tiers) :
        /\ name \in MapNames(emoteFetch.got[k])
        /\ \A j \in (k + 1)..Len(Tiers) : name \notin MapNames(emoteFetch.got[j])

\* C18: the catalog fetchAllEmotes() returns maps each name to the url of the
\* highest-precedence contribution that defines it: within a provider the channel tier
\* over the global tier, and across providers FFZ first, then BTTV, then 7TV, a later one
\* overriding an earlier one.
C18_MergedCatalogPrecedence ==
    emoteFetch.pc = "done" =>
        /\ MapNames(emoteFetch.allEmotes)
             = UNION {MapNames(emoteFetch.got[k]) : k \in 1..Len(Tiers)}
        /\ \A e \in emoteFetch.allEmotes : e \in emoteFetch.got[LastTierWith(e[1])]

\* the global FFZ tier gave A, the channel's FFZ tier gave A and B with other urls, and
\* the returned catalog holds the channel's two
C18_Witness ==
    /\ emoteFetch.pc = "done"
    /\ emoteFetch.got[1] = {<<"A", HttpsColon \o ProtocolRelative(EmoteHostGlobal)>>}
    /\ emoteFetch.got[2] = {<<"A", WithScheme(EmoteHostChannel)>>,
                            <<"B", WithScheme(EmoteHostChannel)>>}
    /\ emoteFetch.allEmotes = emoteFetch.got[2]

\* the positions of url at which pat begins
Occurrences(url, pat) ==
    {k \in 1..Len(url) : k + Len(pat) - 1 <= Len(url)
                         /\ SubSeq(url, k, k + Len(pat) - 1) = pat}

\* the url begins with one scheme and holds no second one
AbsoluteOnce(url) ==
    /\ \/ StartsWith(url, HttpsColon \o <<"/", "/">>)
       \/ StartsWith(url, <<"h", "t", "t", "p", ":", "/", "/">>)
    /\ Cardinality(Occurrences(url, <<":", "/", "/">>)) = 1
    /\ Cardinality(Occurrences(url, <<"h", "t", "t", "p">>)) = 1

\* C19: every url of the merged catalog, whichever provider it came from, is absolute
\* with exactly one scheme prefix; no form of the provider's url gives a doubled
\* 'https:' prefix.
C19_CatalogUrlsAbsolute ==
    \A e \in emoteFetch.allEmotes : AbsoluteOnce(e[2])

\* the same for the urls getFFZEmoteUrl() and the BTTV template give
FFZAndBTTVUrlsAbsolute ==
    \A k \in 1..5 : \A e \in emoteFetch.got[k] : AbsoluteOnce(e[2])

\* C20: the chat container holds at most 200 entries after any event of any kind, a
\* chat message, a subscription or a system notice.
C20_HistoryCap == Len(chatContainer) <= MaxHistory

\* the same after the events that are not system notices: an append of a chat message
\* or a subscription leaves at most 200 entries
HistoryCapAfterChat ==
    [][\A msg \in DisplayMessages :
          (ShowMessage(msg) /\ msg.kind \in {"chat", "subscription"})
             => Len(chatContainer') <= MaxHistory]_vars

\* C21: the unread counter is incremented only by actual chat messages, and only while
\* the panel is not visible or not active; subscriptions, bits, room-state updates
\* (shield-poll results among them), deletions and clearings never increment it.
C21_UnreadOnlyForChat ==
    [][\A message \in ProviderMessages :
          (HandleMessage(message) /\ unreadCount' > unreadCount)
             => /\ message.kind = "chat"
                /\ ~isViewVisible \/ ~isViewActive]_vars

\* the same for the events whose messageType is not 'chat', and for the visible panel
UnreadOnlyForMessageTypeChat ==
    [][\A message \in ProviderMessages :
          (HandleMessage(message) /\ unreadCount' > unreadCount)
             => /\ MessageType(message) = "chat"
                /\ ~isViewVisible \/ ~isViewActive]_vars

\* the connection the session holds was opened with a resolved login (lines 182-195:
\* the transport client got an identity)
Authenticated == client # 0 /\ identity[client] # << >>

\* C22: a shield-mode poll, timer or request, is active only while the session is
\* connected and authenticated in the current connection: after a connect() without a
\* token or with a token whose account lookup failed no poll request is issued, and no
\* poll timer exists while the session has no transport client.
C22_PollOnlyWhileAuthenticated ==
    /\ [](timers # {} => Authenticated)
    /\ [][polls' > polls => Authenticated]_vars

\* the connect() call i is suspended after it opened its transport, it is the only
\* call running, and a disconnect() that completed since has taken the client away
StaleConnect(i) ==
    /\ conn[i].pc \in {"awaitChanId", "awaitEmotes"}
    /\ \A j \in ConnIds \ {i} : conn[j].pc = "idle"
    /\ disc = "idle"
    /\ client = 0

\* C23: the results of network calls started by connect() that complete after a
\* disconnect() has completed are discarded: a channel-id lookup or an emote fetch that
\* returns then leaves the emote catalog empty, the auth token cleared and the shield
\* poll stopped.
C23_StaleConnectDiscarded ==
    [][\A i \in ConnIds :
          (StaleConnect(i) /\ conn'[i] # conn[i])
             => /\ thirdPartyEmotes' = {}
                /\ authToken' = NoToken
                /\ shieldModePollingInterval' = 0
                /\ polls' = polls]_vars

\* the last connect() has returned and its connection has no login: it was called
\* without a token, or its token could not be resolved to an account
ConnectedWithoutLogin ==
    /\ NoConnectRunning
    /\ disc = "idle"
    /\ client # 0
    /\ identity[client] = << >>
    /\ currentChannel # << >>

\* C24: after a connect() whose token could not be resolved to an account, or a
\* connect() without a token, also when an earlier connection of the same instance was
\* authenticated, moderate() and toggleChatMode() reject with the not-authenticated
\* error before they issue any lookup or request.
C24_UnauthenticatedCallsReject ==
    [][ConnectedWithoutLogin =>
          /\ (mod.pc = "idle" /\ mod' # mod)
                => mod'.result = "Not authenticated" /\ lookups' = lookups
          /\ (mode.pc = "idle" /\ mode' # mode)
                => mode'.result = "Not authenticated"]_vars

\* the same on the first connection of an instance
FirstConnectionUnauthenticatedCallsReject ==
    [][(ConnectedWithoutLogin /\ calls = 1) =>
          /\ (mod.pc = "idle" /\ mod' # mod)
                => mod'.result = "Not authenticated" /\ lookups' = lookups
          /\ (mode.pc = "idle" /\ mode' # mode)
                => mode'.result = "Not authenticated"]_vars

\* C25: the identity of the session (current channel, authenticated login, account id,
\* display color) is set at connect() and cleared at disconnect(): after disconnect()
\* completes all four are unset, and moderate(), toggleChatMode() and sendMessage()
\* reject with a precondition error.
C25_IdentityClearedAtDisconnect ==
    /\ [](discDone => /\ currentChannel = << >>
                      /\ currentUsername = << >>
                      /\ currentUserId = 0
                      /\ currentUserColor = "")
    /\ [][discDone =>
            /\ (mod.pc = "idle" /\ mod' # mod) => mod'.pc = "idle"
            /\ (mode.pc = "idle" /\ mode' # mode) => mode'.pc = "idle"
            /\ (send.pc = "idle" /\ send' # send) => send'.pc = "idle"]_vars

\* after a completed disconnect() sendMessage() rejects as not connected
SendRejectsAfterDisconnect ==
    [][(discDone /\ send.pc = "idle" /\ send' # send)
          => send'.result = "Not connected to a channel" /\ said' = said]_vars

\* C26: on an authenticated connect one shield poll is issued at once and further
\* polls are issued on each tick of the 30-second timer; a successful poll emits exactly
\* one room-state update that carries the fetched shield value; a failed poll emits no
\* event, raises no error to any caller and leaves the timer running.
C26_ShieldPolling ==
    [][/\ \A i \in ConnIds :
             (conn[i].pc = "awaitEmotes" /\ conn'[i].pc = "idle"
                /\ identity[conn[i].id] # << >>)
                => /\ polls' = polls + 1
                   /\ shieldModePollingInterval' = conn[i].id
                   /\ conn[i].id \in timers'
       /\ (shieldModePollingInterval # 0 /\ TimerTick(shieldModePollingInterval))
             => polls' = polls + 1
       /\ \A isActive \in BOOLEAN :
             PollResponse(TRUE, isActive)
                => /\ Len(delivered') = Len(delivered) + 1
                   /\ SubSeq(delivered', 1, Len(delivered)) = delivered
                   /\ delivered'[Len(delivered')].kind = "roomstate"
                   /\ delivered'[Len(delivered')].data.shieldMode = JsBool(isActive)
                   /\ timers' = timers
       /\ \A isActive \in BOOLEAN :
             PollResponse(FALSE, isActive)
                => /\ delivered' = delivered
                   /\ timers' = timers
                   /\ shieldModePollingInterval' = shieldModePollingInterval
                   /\ conn' = conn]_vars

\* a poll of an authenticated connection succeeded with the shield on and its event
\* was delivered, a later poll is in flight, and the timer is running
C26_Witness ==
    /\ Authenticated
    /\ shieldModePollingInterval = client
    /\ client \in timers
    /\ polls = 1
    /\ \E k \in 1..Len(delivered) :
          /\ delivered[k].via = "poll"
          /\ delivered[k].data.shieldMode = JsBool(TRUE)

\* C27: every shield-mode status request passes the broadcaster id of the connected
\* channel and the id of the authenticated account as moderator id, as two separate
\* parameters, also when the account is not the channel's broadcaster.
C27_PollPassesBothIds ==
    [][polls' > polls =>
          /\ PollRequest.broadcasterId = ChannelIdOf(currentChannel)
          /\ PollRequest.moderatorId = currentUserId]_vars

\* the same for the moderator id alone
PollPassesModeratorId ==
    [][polls' > polls => (PollRequest.moderatorId = currentUserId /\ currentUserId # 0)]_vars

\* the fetch of the tier named by pc settled with a failure
TierFailed(pc) ==
    /\ emoteFetch.pc = pc
    /\ \/ pc = "ffzGlobal" /\ FetchFFZGlobalEmotes(FailedResponse)
       \/ pc = "ffzChannel" /\ FetchFFZChannelEmotes(FailedResponse)
       \/ pc = "bttvGlobal" /\ FetchBTTVGlobalEmotes(FailedResponse)
       \/ pc = "bttvChannel" /\ FetchBTTVChannelEmotes(FailedResponse)
       \/ pc = "stvGlobal" /\ Fetch7TVGlobalEmotes(FailedResponse)
       \/ pc = "stvChannel" /\ Fetch7TVChannelEmotes(FailedResponse)

\* the tier fetched after the tier named by pc
TierAfter(pc) ==
    CASE pc = "ffzGlobal" -> "ffzChannel"
      [] pc = "ffzChannel" -> IF emoteFetch.channelUserId # 0 THEN "bttvGlobal" ELSE "done"
      [] pc = "bttvGlobal" -> "bttvChannel"
      [] pc = "bttvChannel" -> "stvGlobal"
      [] pc = "stvGlobal" -> "stvChannel"
      [] pc = "stvChannel" -> "done"

\* C28: a failure of one emote provider tier empties only that tier's contribution:
\* the failure of a provider's global tier does not drop the same provider's channel
\* tier, and no failure drops a contribution of another provider.
C28_TierFailureIsLocal ==
    [][\A pc \in {"ffzGlobal", "ffzChannel", "bttvGlobal", "bttvChannel", "stvGlobal",
                  "stvChannel"} :
          TierFailed(pc)
             => /\ emoteFetch'.pc = TierAfter(pc)
                /\ emoteFetch'.got = emoteFetch.got
                /\ MapNames(emoteFetch.allEmotes) \subseteq MapNames(emoteFetch'.allEmotes)]_vars

\* the same for the tiers whose failure is caught where the tier is fetched: both FFZ
\* tiers and the channel tiers of BTTV and 7TV
CaughtTierFailureIsLocal ==
    [][\A pc \in {"ffzGlobal", "ffzChannel", "bttvChannel", "stvChannel"} :
          TierFailed(pc)
             => /\ emoteFetch'.pc = TierAfter(pc)
                /\ emoteFetch'.got = emoteFetch.got
                /\ MapNames(emoteFetch.allEmotes) \subseteq MapNames(emoteFetch'.allEmotes)
                /\ emoteFetch.emotes \subseteq emoteFetch'.emotes \cup emoteFetch'.allEmotes]_vars

\* C29: the thirdPartyEmotes map of an emitted event is a snapshot taken when the event
\* is emitted: a later disconnect(), which clears the catalog, or a reconnect, which
\* replaces it, never changes the map of an event that was already delivered.
C29_EmoteMapIsSnapshot ==
    [][\A k \in 1..Len(delivered) :
          /\ k <= Len(delivered')
          /\ EntriesOf(delivered'[k], thirdPartyEmotes')
               = EntriesOf(delivered[k], thirdPartyEmotes)]_vars

\* a chat message was delivered with a catalog that is not empty, and a disconnect()
\* has cleared the catalog since
C29_Witness ==
    /\ client = 0
    /\ thirdPartyEmotes = {}
    /\ \E k \in 1..Len(delivered) :
          /\ delivered[k].kind = "chat"
          /\ delivered[k].via = "frame"
          /\ EntriesOf(delivered[k], thirdPartyEmotes) # {}

\* C30: whenever the session is connected to a channel and its emote catalog is not
\* empty, the catalog is the one fetched for that channel by the connect() that opened
\* the connection: it never holds entries fetched for a channel connected before, also
\* when two connect() calls for different channels overlap.
C30_CatalogOfCurrentChannel ==
    (client # 0 /\ thirdPartyEmotes # {})
        => \A e \in thirdPartyEmotes : e[2] = currentChannel

\* the same while connect() was called once only
CatalogOfCurrentChannelFirstCall ==
    (client # 0 /\ thirdPartyEmotes # {} /\ calls = 1)
        => \A e \in thirdPartyEmotes : e[2] = currentChannel

\* C31: toggleChatMode('slowMode', ...) with a value that is 0 or not given sends slow
\* mode off (slow_mode false, wait time 0), and with a value N > 0 sends slow mode on
\* with wait time N.
C31_SlowModeBody ==
    [][(mode.pc = "awaitBroadcaster" /\ mode.mode = "slowMode"
          /\ modeRequests' # modeRequests)
       => LET body == modeRequests'[Len(modeRequests')].body
              on == mode.value.type = "number" /\ mode.value.value > 0
          IN  /\ body.slow_mode = JsBool(on)
              /\ body.slow_mode_wait_time = IF on THEN mode.value ELSE JsNumber(0)]_vars

\* a slow-mode request with wait time 30 was issued
C31_Witness ==
    /\ modeRequests # << >>
    /\ modeRequests[1].path = "/helix/chat/settings"
    /\ modeRequests[1].body.slow_mode = JsBool(TRUE)
    /\ modeRequests[1].body.slow_mode_wait_time = JsNumber(30)

\* the events a handler made from a frame of a user that carried no color
Uncolored ==
    { k \in 1..Len(delivered) :
        /\ delivered[k].via = "frame"
        /\ delivered[k].kind \in {"chat", "subscription"}
        /\ arrived[delivered[k].src].color = "" }

\* C32: the deterministic color is a pure function of the username: for every username
\* (the empty string, names whose 32-bit hash is negative or is -2^31) the index is
\* within 0..14, the color is one of the 15 palette entries, and two calls with the same
\* username give the same color.
C32_DeterministicColor ==
    \A k \in Uncolored :
        /\ ColorIndex(HashFrom(0, arrived[delivered[k].src].username)) \in 0..14
        /\ Len(Colors) = 15
        /\ \E i \in 1..Len(Colors) : delivered[k].color = Colors[i]
        /\ \A j \in Uncolored :
              arrived[delivered[j].src].username = arrived[delivered[k].src].username
                  => delivered[j].color = delivered[k].color

\* two events of the user whose hash is -2^31 were delivered, and one of the user
\* with the empty name
C32_Witness ==
    /\ \E j, k \in Uncolored :
          /\ j # k
          /\ arrived[delivered[k].src].username = arrived[delivered[j].src].username
          /\ HashFrom(0, arrived[delivered[j].src].username) = MinInt32

\* C33: a room-state frame that carries only some of the mode tags changes only those
\* modes in the display's room state: a mode whose tag the frame does not carry
\* (subscribers-only, emotes-only, followers-only, slow mode) keeps its value.
C33_AbsentTagsKeepModes ==
    [][(shown' = shown + 1 /\ delivered[shown'].kind = "roomstate"
          /\ delivered[shown'].via = "frame")
       => LET f == arrived[delivered[shown'].src]
          IN  /\ roomState'.subsOnly = roomState.subsOnly
              /\ roomState'.emotesOnly = roomState.emotesOnly
              /\ f.followers = << >> => roomState'.followersOnly = roomState.followersOnly
              /\ f.slow = << >> => roomState'.slowMode = roomState.slowMode]_vars

\* the modes a frame carries reach the display as the frame gives them
CarriedTagsReachDisplay ==
    [][(shown' = shown + 1 /\ delivered[shown'].kind = "roomstate"
          /\ delivered[shown'].via = "frame")
       => LET f == arrived[delivered[shown'].src]
          IN  /\ f.followers # << >> => roomState'.followersOnly = JsNumber(10)
              /\ f.slow # << >> => roomState'.slowMode = JsNumber(10)]_vars

\* C34: no event is delivered to the consumer by a sendMessage() or
\* toggleChatMode('shield') call whose network step completes after a disconnect() of
\* the session has completed.
C34_NoEventAfterDisconnect ==
    [][(discDone /\ delivered' # delivered)
          => delivered'[Len(delivered')].via \notin {"send", "toggle"}]_vars

\* the client holds a live connection to channel c
LiveConnectionTo(c) == client # 0 /\ transport[client] = "open" /\ currentChannel = c

\* every updateChannel() call that was made has completed
UpdatesCompleted ==
    /\ NoUpdateRunning
    /\ NoConnectRunning
    /\ connectionStatus # NoStatus

\* C35: after all in-flight updateChannel() calls have completed, the last
\* connectionStatus sent to the display agrees with the client: 'connected' for channel
\* C iff the client holds a live connection to C, and 'no-channel' or 'error' only when
\* it holds no live connection.
C35_StatusAgreesWithClient ==
    UpdatesCompleted
       => /\ connectionStatus.status = "connected"
                => LiveConnectionTo(Normalize(connectionStatus.channel))
          /\ connectionStatus.status \in {"no-channel", "error"}
                => ~(client # 0 /\ Live(client))

\* the part of C35 about the status 'connected'
ConnectedStatusAgrees ==
    (UpdatesCompleted /\ connectionStatus.status = "connected")
        => LiveConnectionTo(Normalize(connectionStatus.channel))

\* signOut() and the updateChannel() it calls have completed, and nothing ran since
SignOutCompleted ==
    /\ update[1].origin = "signOut"
    /\ NoUpdateRunning
    /\ NoConnectRunning

\* no token is held and no shield poll timer is running
NoAuthenticatedState ==
    /\ authToken = NoToken
    /\ timers = {}
    /\ shieldModePollingInterval = 0

\* C36: after signOut() and the reconnect it triggers have completed, the client holds
\* no authenticated connection: it is connected anonymously to the configured channel
\* or, when no channel is configured, not connected at all; in both cases no shield poll
\* timer is running and no auth token is held.
C36_SignedOutIsAnonymous ==
    SignOutCompleted
       => /\ NoAuthenticatedState
          /\ IF IsBlank(settingsChannel)
             THEN ~(client # 0 /\ Live(client))
             ELSE (client # 0 /\ Live(client))
                     => /\ currentChannel = Normalize(settingsChannel)
                        /\ currentUsername = << >>
                        /\ identity[client] = << >>

\* the events sendMessage made for its own text
OwnEvents == { k \in 1..Len(delivered) : delivered[k].via = "send" }

\* C37: a message sent with sendMessage appears exactly once in the delivered stream:
\* the transport's echo of it (self flag set) is never forwarded, and the synthetic
\* event is the only event emitted for it.
C37_OwnMessageOnce ==
    /\ [](\A k \in 1..Len(delivered) :
             (delivered[k].via = "frame" /\ delivered[k].kind = "chat")
                => ~arrived[delivered[k].src].self)
    /\ [][(arrived' # arrived /\ arrived'[Len(arrived')].cmd = "message"
             /\ arrived'[Len(arrived')].self) => delivered' = delivered]_vars
    /\ [][(send.pc = "awaitSay" /\ send'.pc = "idle" /\ send'.result = "ok")
             => /\ Len(delivered') = Len(delivered) + 1
                /\ delivered'[Len(delivered')].via = "send"
                /\ delivered'[Len(delivered')].data = send.text
                /\ SubSeq(delivered', 1, Len(delivered)) = delivered]_vars
    /\ [](Cardinality(OwnEvents) <= Len(said))

\* the message was sent, its echo arrived, and one event was delivered for it
C37_Witness ==
    /\ send.result = "ok"
    /\ \E n \in 1..Len(arrived) : arrived[n].cmd = "message" /\ arrived[n].self
    /\ Cardinality(OwnEvents) = 1
    /\ \A k \in 1..Len(delivered) : delivered[k].kind = "chat" => k \in OwnEvents

\* the global-account-state frames of the client's connection that supplied a color
ColorFramesOfConnection ==
    { n \in 1..Len(arrived) :
        /\ arrived[n].cmd = "GLOBALUSERSTATE"
        /\ arrived[n].on = client
        /\ arrived[n].tagged
        /\ arrived[n].color # "" }

\* the color the current connection supplied, the brand color when it supplied none
ColorOfConnection ==
    IF ColorFramesOfConnection = {} THEN "#9147ff"
    ELSE arrived[CHOOSE n \in ColorFramesOfConnection :
                    \A k \in ColorFramesOfConnection : k <= n].color

\* the step delivers the event sendMessage makes for its own text, while connected
OwnEventDelivered ==
    /\ client # 0
    /\ Len(delivered') = Len(delivered) + 1
    /\ delivered'[Len(delivered')].via = "send"

\* C38: the color of a synthetic own-message event is the color supplied by the
\* global-account-state frame of the current connection, or #9147ff when that frame
\* supplied none; a color learned during an earlier connection is never used.
C38_OwnColorOfCurrentConnection ==
    [][OwnEventDelivered => delivered'[Len(delivered')].color = ColorOfConnection]_vars

\* the same during the first connection of the instance
OwnColorFirstConnection ==
    [][(OwnEventDelivered /\ calls = 1)
          => delivered'[Len(delivered')].color = ColorOfConnection]_vars

\* C39: in every reachable state of the view provider, whenever the view is recorded
\* as visible it is also recorded as active and the unread count is 0, for any sequence
\* of resolve, visibility-change, focus, dispose and incoming-message events.
C39_VisibleIsActiveAndRead ==
    isViewVisible => (isViewActive /\ unreadCount = 0)

\* a view recorded as visible is recorded as active
VisibleIsActive == isViewVisible => isViewActive

\* C40: at most one shield-mode poll timer exists per instance at any time, for any
\* sequence and interleaving of connect() and disconnect() calls: starting the poll
\* clears a previously started timer first.
C40_OnePollTimer ==
    /\ [](Cardinality(timers) <= 1)
    /\ [](timers \subseteq {shieldModePollingInterval})
    /\ [][\A t \in TransportIds : (t \in timers' /\ t \notin timers) => timers' = {t}]_vars

\* two overlapping connect() calls both completed with a token and a resolved login,
\* the one called first last: each started the poll, and the timer of the first call is
\* the one that is set
C40_Witness ==
    /\ calls = 2
    /\ NoConnectRunning
    /\ conn[1].result = "ok" /\ conn[2].result = "ok"
    /\ identity[1] # << >> /\ identity[2] # << >>
    /\ authToken # NoToken
    /\ timers = {1}

====
